---- MODULE Spec2Model ----
(***************************************************************************)
(* Model of the Twitter hand-off bots of 0xmukeshr/als_care.               *)
(*                                                                         *)
(* Two variants of the same bot are modelled side by side:                 *)
(*   "handoff"  src/unnamed/part_001        (quote only, 120 s wait)       *)
(*   "dm"       src/build.sh lines 1184-1878 (liveness check, own-tweet    *)
(*              filter, OpenAI rewrite, DM then quote, 60 s wait)          *)
(* and, for the text that is published, two more:                          *)
(*   "unique"   src/build.sh lines 2397-3208 (as "dm", with a generated    *)
(*              quote put before the rewritten reply)                      *)
(*   "rewrite"  src/build.sh lines 396-1180  (as "dm" without the identity *)
(*              lookup, the own-tweet filter and the DM; the rewritten     *)
(*              reply is quoted as it is)                                  *)
(*                                                                         *)
(* JavaScript runs one handler at a time: everything between two awaits    *)
(* is one atomic action; initializeTwitterClient is followed await by      *)
(* await, under main's bootstrap and under a cycle that re-authenticates.  *)
(* Strings on which the code computes (toLowerCase, includes, substring,   *)
(* trim) are sequences of characters of a finite alphabet (see             *)
(* OwnLowerCase): a character of ASCII or Latin-1 is written as itself, a  *)
(* character beyond U+00FF by its code point ("U+212A").  A JSON value     *)
(* that is no string is a one-element sequence that holds its description  *)
(* ("Number(5)"), which no character is.                                   *)
(***************************************************************************)
EXTENDS Integers, Sequences, FiniteSets, TLC

(***************************************************************************)
(* Bounds of the model                                                     *)
(***************************************************************************)
MaxCycles == 2
MaxRestarts == 1
MaxResults == 2
LongLen == 300
\* The API-driven server: requests that are in flight at once
MaxRequests == 2
\* An expiry of the session (a liveness check that does not answer true) is
\* followed in cycles that start with at most this many posts handled
MaxHandledAtExpiry == 0
\* handle-cookies.ts: searchForALSTweets invocations that run at once,
\* sendALSTweet calls, full searches that ended before the run is followed,
\* and tweets the platform gets after them
MaxSlots == 2
MaxSends == 2
EarlierSearches == 3
MaxNew == 4
\* searchForALSTweets: maxTweets, and the length tweetQueue is cut to
maxTweets == 20
QueueLimit == 50

\* tweet.username && tweet.text: a few tweets come without them
HasUsernameAndText(id) == id % 7 # 0

\* A cut that keeps the first 50 entries
TrimNewest(tweetQueue) ==
  IF Len(tweetQueue) > QueueLimit
  THEN SubSeq(tweetQueue, 1, QueueLimit)
  ELSE tweetQueue

\* tweetQueue.splice(0, tweetQueue.length - 50) where it is longer than 50
TrimQueue(tweetQueue) ==
  IF Len(tweetQueue) > QueueLimit
  THEN SubSeq(tweetQueue, Len(tweetQueue) - QueueLimit + 1, Len(tweetQueue))
  ELSE tweetQueue

\* The ALS sharing bot when `searches' searches have run to their end one
\* after the other, each finding maxTweets new tweets, and nothing has been
\* shared yet; with 0 it is the bot as main starts it, waiting for
\* initializeTwitterClient.  The platform holds MaxNew tweets the bot has
\* not seen.  sending holds the entries whose sendTweet is pending, saving
\* those whose saveCookies is.
AlsStart(searches) ==
  LET seen == searches * maxTweets
      found == SelectSeq([i \in 1..seen |-> i], HasUsernameAndText)
  IN  [main |-> IF searches > 0 THEN "running" ELSE "initializing",
       processedTweets |-> 1..seen,
       tweetQueue |-> TrimQueue(found),
       enqueued |-> found,
       newestId |-> seen + MaxNew,
       searches |-> [s \in 1..MaxSlots |->
                       [pc |-> IF s = 1 /\ searches > 0 THEN "completed"
                               ELSE "idle",
                        next |-> 0, last |-> 0, tweetCount |-> 0]],
       sendCalls |-> 0, sending |-> {}, saving |-> {}, attempts |-> <<>>,
       lastSend |-> "none"]

Null == "null"

(***************************************************************************)
(* JavaScript string operations                                            *)
(***************************************************************************)
Min(a, b) == IF a < b THEN a ELSE b

\* The alphabet of the model's strings: tab, line feed, form feed, carriage
\* return, the printing characters of ASCII and the characters U+00A0 to
\* U+00FF, written as themselves, and the characters written as tokens:
\* "U+0060" GRAVE ACCENT (a string of the module cannot hold it), the white
\* space String.prototype.trim knows beyond those (see WhiteSpace),
\* "U+0307" COMBINING DOT ABOVE and the five characters outside Latin-1
\* whose lower case lies in this alphabet: "U+212A" KELVIN SIGN, "U+212B"
\* ANGSTROM SIGN, "U+0178" Y WITH DIAERESIS, "U+1E9E" CAPITAL SHARP S,
\* "U+0130" CAPITAL I WITH DOT ABOVE.  No other character occurs in a string
\* of the model.
\* OwnLowerCase: the characters of the alphabet toLowerCase leaves as they
\* are.
OwnLowerCase ==
  {"\t", "\n", "\f", "\r", " ", "!", "\"", "#", "$", "%", "&", "'", "(",
   ")", "*", "+", ",", "-", ".", "/", "0", "1", "2", "3", "4", "5", "6",
   "7", "8", "9", ":", ";", "<", "=", ">", "?", "@", "[", "\\", "]", "^",
   "_", "U+0060", "a", "b", "c", "d", "e", "f", "g", "h", "i", "j", "k", "l",
   "m", "n", "o", "p", "q", "r", "s", "t", "u", "v", "w", "x", "y", "z",
   "{", "|", "}", "~", " ", "¡", "¢", "£", "¤", "¥", "¦", "§", "¨", "©",
   "ª", "«", "¬", "­", "®", "¯", "°", "±", "²", "³", "´", "µ", "¶", "·",
   "¸", "¹", "º", "»", "¼", "½", "¾", "¿", "×", "ß", "à", "á", "â", "ã",
   "ä", "å", "æ", "ç", "è", "é", "ê", "ë", "ì", "í", "î", "ï", "ð", "ñ",
   "ò", "ó", "ô", "õ", "ö", "÷", "ø", "ù", "ú", "û", "ü", "ý", "þ", "ÿ",
   "U+0307", "U+000B", "U+1680", "U+2028", "U+2029", "U+202F", "U+205F",
   "U+3000", "U+FEFF", "U+2000", "U+2001", "U+2002", "U+2003", "U+2004",
   "U+2005", "U+2006", "U+2007", "U+2008", "U+2009", "U+200A"}

\* The lower-case mapping of one character of the alphabet, as
\* String.prototype.toLowerCase applies it: a string of one character, or
\* of two for U+0130.  It is defined on the alphabet only.
LowerChar(ch) ==
  CASE ch \in OwnLowerCase -> <<ch>>
    [] ch = "A" -> <<"a">> [] ch = "B" -> <<"b">> [] ch = "C" -> <<"c">>
    [] ch = "D" -> <<"d">> [] ch = "E" -> <<"e">> [] ch = "F" -> <<"f">>
    [] ch = "G" -> <<"g">> [] ch = "H" -> <<"h">> [] ch = "I" -> <<"i">>
    [] ch = "J" -> <<"j">> [] ch = "K" -> <<"k">> [] ch = "L" -> <<"l">>
    [] ch = "M" -> <<"m">> [] ch = "N" -> <<"n">> [] ch = "O" -> <<"o">>
    [] ch = "P" -> <<"p">> [] ch = "Q" -> <<"q">> [] ch = "R" -> <<"r">>
    [] ch = "S" -> <<"s">> [] ch = "T" -> <<"t">> [] ch = "U" -> <<"u">>
    [] ch = "V" -> <<"v">> [] ch = "W" -> <<"w">> [] ch = "X" -> <<"x">>
    [] ch = "Y" -> <<"y">> [] ch = "Z" -> <<"z">> [] ch = "À" -> <<"à">>
    [] ch = "Á" -> <<"á">> [] ch = "Â" -> <<"â">> [] ch = "Ã" -> <<"ã">>
    [] ch = "Ä" -> <<"ä">> [] ch = "Å" -> <<"å">> [] ch = "Æ" -> <<"æ">>
    [] ch = "Ç" -> <<"ç">> [] ch = "È" -> <<"è">> [] ch = "É" -> <<"é">>
    [] ch = "Ê" -> <<"ê">> [] ch = "Ë" -> <<"ë">> [] ch = "Ì" -> <<"ì">>
    [] ch = "Í" -> <<"í">> [] ch = "Î" -> <<"î">> [] ch = "Ï" -> <<"ï">>
    [] ch = "Ð" -> <<"ð">> [] ch = "Ñ" -> <<"ñ">> [] ch = "Ò" -> <<"ò">>
    [] ch = "Ó" -> <<"ó">> [] ch = "Ô" -> <<"ô">> [] ch = "Õ" -> <<"õ">>
    [] ch = "Ö" -> <<"ö">> [] ch = "Ø" -> <<"ø">> [] ch = "Ù" -> <<"ù">>
    [] ch = "Ú" -> <<"ú">> [] ch = "Û" -> <<"û">> [] ch = "Ü" -> <<"ü">>
    [] ch = "Ý" -> <<"ý">> [] ch = "Þ" -> <<"þ">>
    [] ch = "U+212A" -> <<"k">> [] ch = "U+212B" -> <<"å">>
    [] ch = "U+0178" -> <<"ÿ">> [] ch = "U+1E9E" -> <<"ß">>
    [] ch = "U+0130" -> <<"i", "U+0307">>

\* String.prototype.toLowerCase
RECURSIVE ToLowerCase(_)
ToLowerCase(s) ==
  IF s = <<>> THEN <<>> ELSE LowerChar(Head(s)) \o ToLowerCase(Tail(s))

\* String.prototype.includes
Includes(s, k) ==
  \E i \in 1..(Len(s) - Len(k) + 1) : SubSeq(s, i, i + Len(k) - 1) = k

\* String.prototype.substring(0, n)
Substring0(s, n) == SubSeq(s, 1, Min(n, Len(s)))

\* The white space and line terminators String.prototype.trim removes, in
\* the alphabet above: tab, line feed, form feed, carriage return, space
\* and U+00A0 as themselves, the others as tokens.
WhiteSpace ==
  {"\t", "\n", "\f", "\r", " ", " ", "U+000B", "U+1680", "U+2028",
   "U+2029", "U+202F", "U+205F", "U+3000", "U+FEFF", "U+2000", "U+2001",
   "U+2002", "U+2003", "U+2004", "U+2005", "U+2006", "U+2007", "U+2008",
   "U+2009", "U+200A"}

\* String.prototype.trim
Trim(s) ==
  LET RECURSIVE TrimLeft(_)
      TrimLeft(t) ==
        IF t # <<>> /\ Head(t) \in WhiteSpace THEN TrimLeft(Tail(t)) ELSE t
      RECURSIVE TrimRight(_)
      TrimRight(t) ==
        IF t # <<>> /\ t[Len(t)] \in WhiteSpace
        THEN TrimRight(SubSeq(t, 1, Len(t) - 1)) ELSE t
  IN TrimRight(TrimLeft(s))

\* JavaScript truthiness of a string (undefined is modelled as the empty one)
Truthy(s) == s # <<>>

\* A value that is no string: the number 5 of the JSON body
\* {"tweetId": "1", "response": 5}, written as one element that is no
\* character.  It is truthy and has no substring method.
NumberReply == <<"Number(5)">>

\* typeof x === 'string'
IsString(x) == x # NumberReply

\* The conversion a template literal applies to x
TemplateLiteral(x) == IF IsString(x) THEN x ELSE <<"5">>

\* The TypeError of a call of substring on a value that has none
TypeError == <<"TypeError">>

(***************************************************************************)
(* Program constants                                                       *)
(***************************************************************************)
SEARCH_KEYWORD(v) == IF v = "handoff" THEN <<"@", "0", "x", "k", "e", "y",
      "a", "r", "u">> ELSE <<"@", "a",
      "l", "s", "a", "s", "s", "i", "s", "t", "_", "a", "i">>

CheckInterval == 5000
WaitTimeHandoff == 120000
WaitTimeDm == 60000
waitTimeMs(v) == IF v = "handoff" THEN WaitTimeHandoff ELSE WaitTimeDm

QuoteLimitHandoff == 240
QuoteLimitDm == 280
OptimizeLimit == 250
OptimizeLimitUnique == 280
optimizeLimit(v) ==
  IF v \in {"unique", "rewrite"} THEN OptimizeLimitUnique ELSE OptimizeLimit
UniqueQuoteLimit == 250
ContentLimit == 50
maxInitRetries == 5

(***************************************************************************)
(* The environment: the platform's posts, the bot's identity, the replies  *)
(* the external agent may submit, the completions OpenAI may produce.      *)
(***************************************************************************)
MeUsername == <<"A", "l", "s", "B", "o", "t">>
Text1 == <<"H", "i", " ", "@", "0", "x", "K", "e", "y", "a", "r", "u", " ",
           "@", "A", "L", "S", "a", "s", "s", "i", "s", "t", "_", "A", "I">>
\* Tweets a search may list.  The tweet with id "2" is written by the bot's
\* own account, "3" does not mention the keyword, "4" has no username.
Post1 == [id |-> "1", username |-> <<"a", "l", "i", "c", "e">>, text |-> Text1]
Posts ==
  {Post1,
   [id |-> "2", username |-> MeUsername,
    text |-> <<"@", "0", "x", "k", "e", "y", "a", "r", "u", " ", "@", "a",
               "l", "s", "a", "s", "s", "i", "s", "t", "_", "a", "i", " ",
               "o", "k">>],
   [id |-> "3", username |-> <<"c", "a", "r", "o", "l">>,
    text |-> <<"h", "e", "l", "l", "o">>],
   [id |-> "4", username |-> <<>>, text |-> Text1]}
IDs == {p.id : p \in Posts}

RECURSIVE SeqsUpTo(_, _)
SeqsUpTo(S, n) ==
  IF n = 0 THEN {<<>>}
  ELSE LET shorter == SeqsUpTo(S, n - 1)
       IN shorter \cup {Append(s, x) : s \in {q \in shorter : Len(q) = n - 1}, x \in S}

\* The reply the external agent submits: longer than every character limit
ReplyLong == [i \in 1..LongLen |-> "x"]
Replies == {ReplyLong}

\* Outcomes of fetchSearchTweets raced against the 45 s timer.  A malformed
\* response is null, or an object whose tweets field is no array (here one
\* that holds Post1 under the key 1)
SearchOutcomes ==
  {[kind |-> "ok", tweets |-> r] : r \in SeqsUpTo(Posts, MaxResults)}
    \cup {[kind |-> k, tweets |-> <<>>] : k \in {"malformed", "throw", "timeout"}}
    \cup {[kind |-> "malformed", tweets |-> <<Post1>>]}

\* openai.chat.completions.create rejects (also the outcome handed over
\* where no key is set and no call is made)
FailedCompletion == [kind |-> "throw", content |-> <<>>]

\* Outcomes of openai.chat.completions.create
OptimizeOutcomes ==
  {[kind |-> "ok", content |-> t] :
     t \in {<<"\n", "o", "k", " ">>, <<" ", "\n", " ">>, <<>>}}
    \cup {FailedCompletion}

(***************************************************************************)
(* The Handled-ID Set: a JavaScript Set keeps insertion order, so it is a  *)
(* sequence without repetitions.  The processed-IDs file is missing or      *)
(* holds the JSON array that was written.                                  *)
(***************************************************************************)
SetHas(set, x) == \E i \in 1..Len(set) : set[i] = x
SetAdd(set, x) == IF SetHas(set, x) THEN set ELSE Append(set, x)
Elems(set) == {set[i] : i \in 1..Len(set)}

FileMissing == [kind |-> "missing", ids |-> <<>>]
FileArray(ids) == [kind |-> "array", ids |-> ids]

RECURSIVE AddAll(_, _)
AddAll(set, ids) ==
  IF ids = <<>> THEN set ELSE AddAll(SetAdd(set, Head(ids)), Tail(ids))

\* A start that does not read the file
loadProcessedTweetsSkipped(file, set) == set

\* loadProcessedTweets: the set after loading the file into it
loadProcessedTweets(file, set) ==
  IF file.kind = "array" THEN AddAll(set, file.ids) ELSE set

\* A save that appends the newest ID to the file instead of rewriting it
saveProcessedTweetsNewest(file, set, writeOk) ==
  IF writeOk /\ set # <<>> THEN FileArray(<<set[Len(set)]>>) ELSE file

\* saveProcessedTweets: the file after the call; a failing write is caught
\* and logged and leaves the file as it was
saveProcessedTweets(file, set, writeOk) ==
  IF writeOk THEN FileArray(set) ELSE file

(***************************************************************************)
(* Pure parts of the search and of the rewrite                             *)
(***************************************************************************)
\* getBotUsername: the lower-cased username of the profile scraper.me()
\* resolved with, or none (the empty string); when scraper.me() rejects, the
\* lower-cased TWITTER_USERNAME of the environment, or none when that is
\* not set or empty
getBotUsername(me, username) ==
  IF me.kind = "ok"
  THEN IF Truthy(me.username) THEN ToLowerCase(me.username) ELSE <<>>
  ELSE ToLowerCase(username)

Complete(tweet) ==
  tweet.id # "" /\ Truthy(tweet.username) /\ Truthy(tweet.text)

MentionsKeyword(v, tweet) ==
  Includes(ToLowerCase(tweet.text), ToLowerCase(SEARCH_KEYWORD(v)))

\* A loop body that does not look at the handled set
QualifiesHandledToo(v, tweet, botUsername, processed) ==
  IF v \in {"handoff", "rewrite"}
  THEN Complete(tweet) /\ MentionsKeyword(v, tweet)
  ELSE /\ Complete(tweet)
       /\ ~(Truthy(botUsername) /\ ToLowerCase(tweet.username) = botUsername)
       /\ MentionsKeyword(v, tweet)

\* The test of the loop body that makes a tweet the candidate
\* (part_001 and the build.sh bot without the identity test: one condition;
\* the other build.sh bots: the two continues, then the condition)
Qualifies(v, tweet, botUsername, processed) ==
  IF v \in {"handoff", "rewrite"}
  THEN Complete(tweet) /\ MentionsKeyword(v, tweet) /\ ~SetHas(processed, tweet.id)
  ELSE /\ Complete(tweet)
       /\ ~(Truthy(botUsername) /\ ToLowerCase(tweet.username) = botUsername)
       /\ MentionsKeyword(v, tweet)
       /\ ~SetHas(processed, tweet.id)

\* Whether the loop body logs "Skipping already processed tweet ID": in the
\* bots with one condition its else branch asks for the id alone, in the
\* others the two continues come first
LogsSkip(v, tweet, botUsername, processed) ==
  IF v \in {"handoff", "rewrite"}
  THEN tweet.id # "" /\ SetHas(processed, tweet.id)
  ELSE /\ Complete(tweet)
       /\ ~(Truthy(botUsername) /\ ToLowerCase(tweet.username) = botUsername)
       /\ SetHas(processed, tweet.id)

\* The for loop of searchForLatestTweet: index of the tweet it returns, 0 if none
RECURSIVE SelectFrom(_, _, _, _, _)
SelectFrom(v, tweets, i, botUsername, processed) ==
  IF i > Len(tweets) THEN 0
  ELSE IF Qualifies(v, tweets[i], botUsername, processed) THEN i
  ELSE SelectFrom(v, tweets, i + 1, botUsername, processed)

\* A search that loops over response.tweets without testing the response
SelectIndexUntested(v, outcome, botUsername, processed) ==
  SelectFrom(v, outcome.tweets, 1, botUsername, processed)

\* searchForLatestTweet: 0 when the race rejected or the response is
\* malformed, else the result of the loop
SelectIndex(v, outcome, botUsername, processed) ==
  IF outcome.kind = "ok"
  THEN SelectFrom(v, outcome.tweets, 1, botUsername, processed)
  ELSE 0

\* IDs the loop logged as skipped before it returned
SkippedIds(v, outcome, botUsername, processed) ==
  LET n == SelectIndex(v, outcome, botUsername, processed)
      last == IF n = 0 THEN Len(outcome.tweets) ELSE n - 1
  IN {outcome.tweets[i].id : i \in {j \in 1..last :
         LogsSkip(v, outcome.tweets[j], botUsername, processed)}}

\* The TweetData the search builds for a tweet
NewTweetData(tweet) ==
  [id |-> tweet.id, username |-> tweet.username, content |-> tweet.text,
   processed |-> FALSE, response |-> <<>>, refinedResponse |-> <<>>,
   dmSent |-> "undefined"]

\* optimizeForTwitter: the value it returns (responseText itself, whatever
\* it is, where the code returns it), or TypeError when the substring call
\* of its catch block throws and the promise rejects
optimizeForTwitter(v, responseText, hasKey, outcome) ==
  IF ~hasKey THEN responseText
  ELSE IF outcome.kind = "throw"
  THEN IF IsString(responseText)
       THEN Substring0(responseText, optimizeLimit(v))
       ELSE TypeError
  ELSE LET optimizedResponse == Trim(outcome.content)
       IN IF ~Truthy(optimizedResponse) THEN responseText
          ELSE Substring0(optimizedResponse, optimizeLimit(v))

\* generateUniqueQuote: the text it returns
generateUniqueQuote(tweetContent, hasKey, outcome) ==
  LET regarding == Substring0(tweetContent, ContentLimit) \o <<".", ".", ".">>
      QuoteNoKey ==
        <<"W", "e", "'", "r", "e", " ", "h", "e", "r", "e", " ", "t", "o", " ",
         "s", "u", "p", "p", "o", "r", "t", " ", "y", "o", "u", ":", " ">>
      QuoteEmpty ==
        <<"W", "e", " ", "u", "n", "d", "e", "r", "s", "t", "a", "n", "d", " ",
         "y", "o", "u", "r", " ", "n", "e", "e", "d", "s", " ", "a", "n", "d",
         " ", "a", "r", "e", " ", "h", "e", "r", "e", " ", "t", "o", " ", "s",
         "u", "p", "p", "o", "r", "t", " ", "y", "o", "u", ".", " ", "R", "e",
         "g", "a", "r", "d", "i", "n", "g", ":", " ">>
      QuoteFailed ==
        <<"W", "e", "'", "r", "e", " ", "h", "e", "r", "e", " ", "t", "o", " ",
         "c", "a", "r", "e", " ", "f", "o", "r", " ", "y", "o", "u", " ", "a",
         "n", "d", " ", "s", "u", "p", "p", "o", "r", "t", " ", "y", "o", "u",
         "r", " ", "j", "o", "u", "r", "n", "e", "y", ".", " ", "R", "e", "g",
         "a", "r", "d", "i", "n", "g", ":", " ">>
  IN IF ~hasKey THEN QuoteNoKey \o regarding
     ELSE IF outcome.kind = "throw" THEN QuoteFailed \o regarding
     ELSE LET quote == Trim(outcome.content)
          IN IF ~Truthy(quote) THEN QuoteEmpty \o regarding
             ELSE Substring0(quote, UniqueQuoteLimit)

\* quoteTweetContent: the template literal with the rewritten reply, in the
\* third variant preceded by the generated quote; the bot that has no such
\* literal hands optimizedResponse over as it is
quoteTweetContent(v, tweetContent, optimizedResponse, hasKey, outcome) ==
  IF v = "unique"
  THEN generateUniqueQuote(tweetContent, hasKey, outcome)
         \o <<"\n", "\n">> \o TemplateLiteral(optimizedResponse)
  ELSE IF v = "dm" THEN TemplateLiteral(optimizedResponse)
  ELSE optimizedResponse

\* The text handed to sendQuoteTweet (response in part_001, the rewritten
\* reply in build.sh, quoteTweetContent in the third variant)
QuoteText(v, response, optimizedResponse) ==
  IF v = "handoff" THEN Substring0(response, QuoteLimitHandoff)
  ELSE IF v = "rewrite" THEN optimizedResponse
  ELSE Substring0(optimizedResponse, QuoteLimitDm)

(***************************************************************************)
(* State                                                                   *)
(***************************************************************************)
VARIABLES
  variant,            \* which bot runs
  apiKey,             \* whether OPENAI_API_KEY is set
  TWITTER_USERNAME,   \* process.env.TWITTER_USERNAME
  processedFile,      \* processed-tweets.json
  cookiesFile,        \* twitter-cookies.json: "missing" or "present"
  tweetStore,         \* Map id -> TweetData
  currentActiveTweet, \* id of the active TweetData, or Null
  processedTweetIds,  \* Set of handled ids
  main,               \* position of main(): pc and, while it initializes,
                      \* the bootstrap attempt i
  serverUp,           \* whether serve() has been called
  cyc,                \* the runProcessingCycle invocations and their locals
  timers,             \* pending setTimeout(runProcessingCycle) timers
  quotes,             \* platform: per tweet id the number of quotes published
  dms,                \* platform: per tweet id the number of DMs delivered
  http,               \* the last HTTP exchange as the external agent saw it
  restarts,           \* number of process restarts so far
  loadedIds,          \* ids that were in the file when this run loaded it
  auth,               \* one initialization of the Twitter client, call by call
  fileBot,            \* english_tweet.ts: its cycle, processedTweets,
                      \* input.json, output.json and what it published
  alsBot,             \* handle-cookies.ts: tweetQueue, processedTweets, the
                      \* searchForALSTweets invocations and what was shared
  apiBot              \* the API-driven server: scraperInstance and the calls
                      \* of main, of the requests and of runSearch (the
                      \* string "null" in the runs of the bots, where no
                      \* such server exists)

vars == <<variant, apiKey, TWITTER_USERNAME, processedFile, cookiesFile,
          tweetStore, currentActiveTweet, processedTweetIds, main, serverUp,
          cyc, timers, quotes, dms, http, restarts, loadedIds, auth, fileBot,
          alsBot, apiBot>>

Cycles == 1..MaxCycles

\* Locals of one runProcessingCycle invocation, over the functions it calls:
\* tweet (the TweetData it processes), elapsedTime (the waiter), botUsername
\* (the search), responseText (argument of optimizeForTwitter),
\* optimizedResponse, dmReply (the reply quoted in the DM text), quoteText
\* (argument of sendQuoteTweet); skipped is what the search logged as
\* "Skipping already processed tweet ID".  A local is reset to its initial
\* value once the code no longer reads it; elapsedTime stays until the cycle
\* returns.
\* isAuthenticated is how the liveness check of this invocation settled
\* ("none" before it has), scraper the client the invocation works with: the
\* one main held when it started ("held") or the one its own
\* initializeTwitterClient returned ("new"); both are followed until the
\* search request is issued.
IdleCycle == [pc |-> "idle", tweet |-> Null, elapsedTime |-> 0,
              botUsername |-> <<>>, skipped |-> {}, responseText |-> <<>>,
              optimizedResponse |-> <<>>, dmReply |-> <<>>,
              quoteText |-> <<>>, isAuthenticated |-> "none",
              scraper |-> "held"]

NoTweet == [id |-> "", username |-> <<>>, content |-> <<>>]
NoBody == [kind |-> "none", tweetId |-> "", response |-> <<>>]
\* http when no request has been answered yet, and when the agent's side of
\* the exchange is not followed at all
Unobserved == [route |-> "unobserved", body |-> NoBody, code |-> 0,
               status |-> "none", tweet |-> NoTweet, tweets |-> {}]

\* The program a bot is built from
ProgramOf(v) == IF v = "handoff" THEN "part_001" ELSE "build.sh"

\* The programs with the initializeTwitterClient of part_001: one attempt,
\* the cookie file removed after a failed cookie attempt, a throw when the
\* client is not authenticated.  handle-cookies.ts does not fetch the
\* identity.
SingleAttempt == {"part_001", "english_tweet.ts", "handle-cookies.ts"}

\* A thrown value: an Error (name, message, first stack frame) or not
Thrown(isError, name, message, frame) ==
  [isError |-> isError, name |-> name, message |-> message, frame |-> frame]
NoError == Thrown(FALSE, <<>>, <<>>, <<>>)

\* Locals and call counts of one initialization.  pc: "idle" before the
\* call, "cookies" while tryAuthWithCookies is pending, "login" while the
\* race of scraper.login against the 30 s timer (and the calls after it)
\* is pending, "loginBackoff" and "initBackoff" while a retry delay runs,
\* "returned" / "threw" when initializeTwitterClient has ended, "exited"
\* after process.exit(1) of newsearch.ts.  cookieCalls and loginCalls count
\* the calls of tryAuthWithCookies and loginWithCredentials, attempts the
\* scraper.login calls of the current loginWithCredentials call; thrown is
\* the value its catch block saw last; fileAtLogin is the state of the
\* cookie file when loginWithCredentials was called last.  isLoggedIn and
\* me are what the last tryAuthWithCookies saw: the answer of its liveness
\* check and how the identity fetch after it went ("none": not called);
\* pc is "meHung" when that fetch never settles and no timer races it.
NoAuth(program) ==
  [program |-> program, pc |-> "idle", credentials |-> TRUE,
   retryCount |-> 0, retries |-> 0, delay |-> 0,
   cookieCalls |-> 0, loginCalls |-> 0, attempts |-> 0,
   cookieResult |-> "none", loginResult |-> "none",
   thrown |-> NoError, fileAtLogin |-> "none",
   isLoggedIn |-> "none", me |-> "none"]

\* Module state when main() has reached its first await.  The bot of
\* build.sh 396-1180 awaits a DNS lookup first: nothing is loaded and no
\* server listens.  The others have loaded the handled set and, in build.sh,
\* the server is already listening.
FreshRun(v, file) ==
  IF v = "rewrite"
  THEN [tweetStore |-> <<>>,
        currentActiveTweet |-> Null,
        processedTweetIds |-> <<>>,
        main |-> [pc |-> "lookup", i |-> 0],
        serverUp |-> FALSE,
        loadedIds |-> {}]
  ELSE [tweetStore |-> <<>>,
        currentActiveTweet |-> Null,
        processedTweetIds |-> loadProcessedTweets(file, <<>>),
        main |-> [pc |-> "initializing", i |-> 0],
        serverUp |-> (v # "handoff"),
        loadedIds |-> IF file.kind = "array" THEN Elems(file.ids) ELSE {}]

InitFrom(variants, agentView, cookieStates, usernames) ==
  /\ variant \in variants
  /\ apiKey \in (IF variant # "handoff" THEN BOOLEAN ELSE {FALSE})
  /\ TWITTER_USERNAME \in usernames
  /\ processedFile = FileMissing
  /\ cookiesFile \in cookieStates
  /\ quotes = [id \in IDs |-> 0]
  /\ dms = [id \in IDs |-> 0]
  /\ restarts = 0
  /\ tweetStore = FreshRun(variant, processedFile).tweetStore
  /\ currentActiveTweet = FreshRun(variant, processedFile).currentActiveTweet
  /\ processedTweetIds = FreshRun(variant, processedFile).processedTweetIds
  /\ main = FreshRun(variant, processedFile).main
  /\ serverUp = FreshRun(variant, processedFile).serverUp
  /\ loadedIds = FreshRun(variant, processedFile).loadedIds
  /\ cyc = [c \in Cycles |-> IdleCycle]
  /\ timers = 0
  /\ http = agentView
  /\ fileBot = [pc |-> "initializing",
                tweet |-> [username |-> <<>>, content |-> <<>>, tweetId |-> ""],
                quoteText |-> <<>>, processedTweets |-> {},
                inputJson |-> [kind |-> "missing", message |-> <<>>,
                               processed |-> FALSE],
                outputJson |-> [kind |-> "missing", messages |-> <<>>],
                published |-> <<>>]

\* The account's handle in capitals, as TWITTER_USERNAME holds it
EnvUsername == <<"A", "L", "S", "B", "O", "T">>

\* First start without a cookie file, with the credentials in the
\* environment
InitWith(variants, agentView) ==
  /\ InitFrom(variants, agentView, {"missing"}, {EnvUsername})
  /\ auth = NoAuth(ProgramOf(variant))
  /\ alsBot = AlsStart(0)
  /\ apiBot = Null

\* Both bots, first start, the agent's side not followed
Init == InitWith({"handoff", "dm"}, Unobserved)

\* The process is killed and started again: memory is lost, the files and
\* the platform keep their state
Restart ==
  /\ restarts < MaxRestarts
  /\ restarts' = restarts + 1
  /\ tweetStore' = FreshRun(variant, processedFile).tweetStore
  /\ currentActiveTweet' = FreshRun(variant, processedFile).currentActiveTweet
  /\ processedTweetIds' = FreshRun(variant, processedFile).processedTweetIds
  /\ main' = FreshRun(variant, processedFile).main
  /\ serverUp' = FreshRun(variant, processedFile).serverUp
  /\ loadedIds' = FreshRun(variant, processedFile).loadedIds
  /\ cyc' = [c \in Cycles |-> IdleCycle]
  /\ timers' = 0
  /\ auth' = [NoAuth(auth.program) EXCEPT !.credentials = auth.credentials]
  /\ UNCHANGED <<TWITTER_USERNAME, fileBot, alsBot, apiBot, variant, apiKey,
                 processedFile, cookiesFile, quotes, dms, http>>

(***************************************************************************)
(* runProcessingCycle                                                      *)
(***************************************************************************)
\* A finally block that arms two timers
ScheduleTwice(t) == t + 2

\* setTimeout(runProcessingCycle, delay) in the finally block
ScheduleNext(t) == t + 1

\* A return that skips the finally block
EndCycleUnscheduled(c) ==
  /\ cyc' = [cyc EXCEPT ![c] = IdleCycle]
  /\ timers' = timers

\* return from runProcessingCycle: the finally block re-arms the timer
EndCycle(c) ==
  /\ cyc' = [cyc EXCEPT ![c] = IdleCycle]
  /\ timers' = ScheduleNext(timers)

\* A head that re-arms the timer as it starts, as setInterval would
RunHeadRearmsFirst(c, t) ==
  /\ cyc' = [cyc EXCEPT ![c] = [IdleCycle EXCEPT
               !.pc = IF variant # "handoff" THEN "isLoggedIn"
                                        ELSE "fetchSearchTweets"]]
  /\ timers' = ScheduleNext(t)

\* The synchronous head of runProcessingCycle, run in invocation slot c with
\* t timers left pending: the guard on the active slot, then the first await
RunHead(c, t) ==
  IF currentActiveTweet # Null
  THEN /\ cyc' = cyc
       /\ timers' = ScheduleNext(t)
  ELSE /\ cyc' = [cyc EXCEPT ![c] = [IdleCycle EXCEPT
                    !.pc = IF variant # "handoff" THEN "isLoggedIn"
                                             ELSE "fetchSearchTweets"]]
       /\ timers' = t

FreeSlot(c) ==
  /\ cyc[c].pc = "idle"
  /\ \A d \in Cycles : d < c => cyc[d].pc # "idle"

\* A bootstrap loop that gives up at its first failed attempt
LastAttemptAlways(v, i) == TRUE

\* if (i === maxInitRetries - 1): the failed attempt was the last one
\* (part_001 awaits initializeTwitterClient once, without a loop)
LastAttempt(v, i) == v = "handoff" \/ i = maxInitRetries - 1

\* A pending timer fires: runProcessingCycle is invoked
RunProcessingCycle ==
  /\ main.pc = "running"
  /\ timers > 0
  /\ \E c \in Cycles : FreeSlot(c) /\ RunHead(c, timers - 1)
  /\ UNCHANGED <<fileBot, alsBot, apiBot, auth, variant, TWITTER_USERNAME,
                 apiKey, processedFile, cookiesFile, tweetStore,
                 currentActiveTweet, processedTweetIds, main, serverUp,
                 quotes, dms, http, restarts, loadedIds>>

\* Outcomes of scraper.isLoggedIn() raced against the 15 s timer
LivenessOutcomes == {"true", "false", "throw", "timeout"}

\* if (!isAuthenticated): where the cycle goes after the liveness check
AfterLivenessCheck(o) == IF o = "true" THEN "me" ELSE "initializeTwitterClient"

\* A re-authentication whose client is dropped
AssignScraperKept(held, created) == held

\* scraper = await initializeTwitterClient()
AssignScraper(held, created) == created

\* The liveness check raced against its 15 s timer settles; when it did not
\* answer true, initializeTwitterClient is called
IsLoggedInSettles(c) ==
  /\ main.pc = "running"
  /\ cyc[c].pc = "isLoggedIn"
  /\ \E o \in LivenessOutcomes :
       /\ o # "true" => Len(processedTweetIds) <= MaxHandledAtExpiry
       /\ cyc' = IF variant = "rewrite" /\ AfterLivenessCheck(o) = "me"
                 THEN [cyc EXCEPT ![c].pc = "fetchSearchTweets"]
                 ELSE [cyc EXCEPT ![c].pc = AfterLivenessCheck(o),
                                  ![c].isAuthenticated = o]
       /\ auth' = IF AfterLivenessCheck(o) = "initializeTwitterClient"
                  THEN [NoAuth(auth.program) EXCEPT
                          !.credentials = auth.credentials,
                          !.pc = "cookies", !.cookieCalls = 1]
                  ELSE auth
  /\ UNCHANGED <<TWITTER_USERNAME, fileBot, alsBot, apiBot, variant, apiKey,
                 processedFile, cookiesFile, tweetStore, currentActiveTweet,
                 processedTweetIds, main, serverUp, timers, quotes, dms, http,
                 restarts, loadedIds>>

\* scraper = await initializeTwitterClient(): the call, followed step by
\* step below, has ended; when it threw, the cycle returns
ReAuthenticate(c) ==
  /\ main.pc = "running"
  /\ cyc[c].pc = "initializeTwitterClient"
  /\ auth.pc \in {"returned", "threw"}
  /\ auth' = [NoAuth(auth.program) EXCEPT !.credentials = auth.credentials]
  /\ IF auth.pc = "returned"
     THEN /\ cyc' = IF variant = "rewrite"
                    THEN [cyc EXCEPT ![c].pc = "fetchSearchTweets",
                                     ![c].isAuthenticated = "none"]
                    ELSE [cyc EXCEPT
                            ![c].pc = "me",
                            ![c].scraper = AssignScraper(cyc[c].scraper, "new")]
          /\ timers' = timers
     ELSE EndCycle(c)
  /\ UNCHANGED <<TWITTER_USERNAME, fileBot, alsBot, apiBot, variant, apiKey,
                 processedFile, cookiesFile, tweetStore, currentActiveTweet,
                 processedTweetIds, main, serverUp, quotes, dms, http,
                 restarts, loadedIds>>

\* searchForLatestTweet: scraper.me() of getBotUsername settles, the search
\* request is issued
MeSettles(c) ==
  /\ main.pc = "running"
  /\ cyc[c].pc = "me"
  \* scraper.me(): a profile with a username, one without (or null), or a
  \* rejected promise
  /\ \E me \in {[kind |-> "ok", username |-> MeUsername],
                 [kind |-> "ok", username |-> <<>>],
                 [kind |-> "throw", username |-> <<>>]} :
       cyc' = [cyc EXCEPT ![c].pc = "fetchSearchTweets",
                          ![c].botUsername =
                             getBotUsername(me, TWITTER_USERNAME),
                          ![c].isAuthenticated = "none",
                          ![c].scraper = "held"]
  /\ UNCHANGED <<fileBot, alsBot, apiBot, auth, variant, TWITTER_USERNAME,
                 apiKey, processedFile, cookiesFile, tweetStore,
                 currentActiveTweet, processedTweetIds, main, serverUp,
                 timers, quotes, dms, http, restarts, loadedIds>>

\* searchForLatestTweet: the search settles (part_001 has no timer racing
\* it).  A candidate is stored and, with no handler in between,
\* processTweetAndRespond makes it the active tweet and starts the waiter.
SearchSettlesFrom(c, outcomes) ==
  /\ main.pc = "running"
  /\ cyc[c].pc = "fetchSearchTweets"
  /\ \E o \in outcomes :
       /\ variant = "handoff" => o.kind # "timeout"
       /\ LET n == SelectIndex(variant, o, cyc[c].botUsername, processedTweetIds)
          IN IF n = 0
             THEN /\ EndCycle(c)
                  /\ UNCHANGED <<tweetStore, currentActiveTweet>>
             ELSE /\ tweetStore' =
                       [k \in DOMAIN tweetStore \cup {o.tweets[n].id} |->
                          IF k = o.tweets[n].id THEN NewTweetData(o.tweets[n])
                          ELSE tweetStore[k]]
                  /\ currentActiveTweet' = o.tweets[n].id
                  /\ cyc' = [cyc EXCEPT
                       ![c].pc = "waiting",
                       ![c].tweet = o.tweets[n].id,
                       ![c].elapsedTime = 0,
                       ![c].botUsername = <<>>,
                       ![c].skipped = SkippedIds(variant, o, cyc[c].botUsername,
                                                 processedTweetIds)]
                  /\ timers' = timers
  /\ UNCHANGED <<fileBot, alsBot, apiBot, auth, variant, TWITTER_USERNAME,
                 apiKey, processedFile, cookiesFile, processedTweetIds, main,
                 serverUp, quotes, dms, http, restarts, loadedIds>>

SearchSettles(c) == SearchSettlesFrom(c, SearchOutcomes)

(***************************************************************************)
(* processTweetAndRespond                                                  *)
(***************************************************************************)
\* A waiter that tests the budget before it looks at the reply
WaiterDecisionBudgetFirst(response, elapsed, budget) ==
  IF elapsed >= budget THEN "timeout"
  ELSE IF Truthy(response) THEN "reply"
  ELSE "wait"

\* A waiter that looks at the reply only once the budget has elapsed
WaiterDecisionAtBudget(response, elapsed, budget) ==
  IF elapsed < budget THEN "wait"
  ELSE IF Truthy(response) THEN "reply"
  ELSE "timeout"

\* What one tick of the waiter's interval does, elapsed being the time after
\* this tick
WaiterDecision(response, elapsed, budget) ==
  IF Truthy(response) THEN "reply"
  ELSE IF elapsed >= budget THEN "timeout"
  ELSE "wait"

\* A cleanup that leaves the slot as it is
clearActiveSkipped(current, id) == current

\* if (currentActiveTweet?.id === tweet.id) currentActiveTweet = null
clearActive(current, id) == IF current = id THEN Null ELSE current

\* A responder that leaves the handled set and its file alone
MarkHandledSkipped(id, writeOk) ==
  /\ processedTweetIds' = processedTweetIds
  /\ processedFile' = processedFile

\* processedTweetIds.add(tweet.id); saveProcessedTweets()
MarkHandled(id, writeOk) ==
  LET added == SetAdd(processedTweetIds, id)
  IN /\ processedTweetIds' = added
     /\ processedFile' = saveProcessedTweets(processedFile, added, writeOk)

\* A catch block that is not followed by the cleanup of the slot
CatchAndReturnKeepsSlot(c) ==
  /\ \E writeOk \in BOOLEAN : MarkHandled(cyc[c].tweet, writeOk)
  /\ currentActiveTweet' = currentActiveTweet
  /\ EndCycle(c)

\* The body of the catch block, then the return to runProcessingCycle
CatchAndReturn(c) ==
  /\ \E writeOk \in BOOLEAN : MarkHandled(cyc[c].tweet, writeOk)
  /\ currentActiveTweet' = clearActive(currentActiveTweet, cyc[c].tweet)
  /\ EndCycle(c)

\* One tick of the waiter.  With a reply the responder starts: part_001
\* issues the quote, build.sh rewrites the reply (awaiting OpenAI when a key
\* is set) and then starts the DM.  A reply that is no string makes the
\* responder throw where it first calls substring on it, and the catch block
\* runs.  At the budget the tweet is marked handled, the slot is cleared and
\* the cycle returns.
WaitTick(c) ==
  /\ main.pc = "running"
  /\ cyc[c].pc = "waiting"
  /\ LET id == cyc[c].tweet
         tweet == tweetStore[id]
         elapsed == cyc[c].elapsedTime + CheckInterval
         decision == WaiterDecision(tweet.response, elapsed, waitTimeMs(variant))
     IN CASE decision = "wait" ->
               /\ cyc' = [cyc EXCEPT ![c].elapsedTime = elapsed]
               /\ UNCHANGED <<tweetStore, currentActiveTweet, processedTweetIds,
                              processedFile, timers>>
          [] decision = "timeout" ->
               /\ \E writeOk \in BOOLEAN : MarkHandled(id, writeOk)
               /\ currentActiveTweet' = clearActive(currentActiveTweet, id)
               /\ EndCycle(c)
               /\ UNCHANGED tweetStore
          [] decision = "reply" /\ variant = "handoff" ->
               IF IsString(tweet.response)
               THEN /\ cyc' = [cyc EXCEPT
                                 ![c].pc = "sendQuoteTweet",
                                 ![c].elapsedTime = elapsed,
                                 ![c].skipped = {},
                                 ![c].quoteText =
                                    QuoteText(variant, tweet.response, <<>>)]
                    /\ UNCHANGED <<tweetStore, currentActiveTweet,
                                   processedTweetIds, processedFile, timers>>
               \* tweet.response.substring is not a function
               ELSE /\ CatchAndReturn(c)
                    /\ UNCHANGED tweetStore
          [] decision = "reply" /\ variant # "handoff" /\ apiKey ->
               /\ cyc' = [cyc EXCEPT ![c].pc = "openai",
                                     ![c].elapsedTime = elapsed,
                                     ![c].skipped = {},
                                     ![c].responseText = tweet.response]
               /\ UNCHANGED <<tweetStore, currentActiveTweet, processedTweetIds,
                              processedFile, timers>>
          [] decision = "reply" /\ variant # "handoff" /\ ~apiKey ->
               LET optimized == optimizeForTwitter(variant, tweet.response, FALSE,
                                                   FailedCompletion)
               IN /\ tweetStore' =
                       [tweetStore EXCEPT ![id].refinedResponse = optimized]
                  /\ IF IsString(tweet.response)
                     THEN /\ cyc' = IF variant = "rewrite"
                                    THEN [cyc EXCEPT
                                            ![c].pc = "sendQuoteTweet",
                                            ![c].elapsedTime = elapsed,
                                            ![c].skipped = {},
                                            ![c].quoteText =
                                               QuoteText(variant, <<>>,
                                                         optimized)]
                                    ELSE [cyc EXCEPT
                                            ![c].pc = "dmConversations",
                                            ![c].elapsedTime = elapsed,
                                            ![c].skipped = {},
                                            ![c].optimizedResponse = optimized,
                                            ![c].dmReply = tweet.response]
                          /\ UNCHANGED <<currentActiveTweet, processedTweetIds,
                                         processedFile, timers>>
                     \* tweet.response.substring is not a function
                     ELSE CatchAndReturn(c)
  /\ UNCHANGED <<fileBot, alsBot, apiBot, auth, variant, TWITTER_USERNAME,
                 apiKey, cookiesFile, main, serverUp, quotes, dms, http,
                 restarts, loadedIds>>

\* optimizeForTwitter: the OpenAI call settles; the DM is started with the
\* reply the tweet holds now.  The catch block runs when optimizeForTwitter
\* rejects and when the reply the tweet holds now is no string.
OpenAiSettles(c) ==
  /\ main.pc = "running"
  /\ cyc[c].pc = "openai"
  /\ \E o \in OptimizeOutcomes :
       LET id == cyc[c].tweet
           optimized == optimizeForTwitter(variant, cyc[c].responseText,
                                           TRUE, o)
       IN IF optimized = TypeError
          THEN /\ CatchAndReturn(c)
               /\ UNCHANGED tweetStore
          ELSE /\ tweetStore' =
                    [tweetStore EXCEPT ![id].refinedResponse = optimized]
               /\ IF IsString(tweetStore[id].response)
                  THEN /\ cyc' = IF variant = "rewrite"
                                 THEN [cyc EXCEPT
                                         ![c].pc = "sendQuoteTweet",
                                         ![c].responseText = <<>>,
                                         ![c].quoteText =
                                            QuoteText(variant, <<>>, optimized)]
                                 ELSE [cyc EXCEPT
                                         ![c].pc = "dmConversations",
                                         ![c].responseText = <<>>,
                                         ![c].optimizedResponse = optimized,
                                         ![c].dmReply = tweetStore[id].response]
                       /\ UNCHANGED <<currentActiveTweet, processedTweetIds,
                                      processedFile, timers>>
                  ELSE CatchAndReturn(c)
  /\ UNCHANGED <<fileBot, alsBot, apiBot, auth, variant, TWITTER_USERNAME,
                 apiKey, cookiesFile, main, serverUp, quotes, dms, http,
                 restarts, loadedIds>>

\* The locals of invocation c once sendDirectMessage has returned: the
\* quote is issued, in the third variant after generateUniqueQuote, which
\* awaits OpenAI when a key is set
AfterDm(c) ==
  IF variant = "unique" /\ apiKey
  THEN [cyc[c] EXCEPT !.pc = "generateUniqueQuote", !.dmReply = <<>>]
  ELSE [cyc[c] EXCEPT
          !.pc = "sendQuoteTweet",
          !.optimizedResponse = <<>>,
          !.dmReply = <<>>,
          !.quoteText =
             QuoteText(variant, <<>>,
               quoteTweetContent(variant, tweetStore[cyc[c].tweet].content,
                                 cyc[c].optimizedResponse, FALSE, FailedCompletion))]

\* A responder that gives up the public quote when the DM was not sent
DmNotSentSkipsQuote(c) ==
  /\ tweetStore' = [tweetStore EXCEPT ![cyc[c].tweet].dmSent = "false"]
  /\ cyc' = [cyc EXCEPT ![c].pc = "getCookies"]

\* sendDirectMessage returns false: dmSent records it and the quote is issued
DmNotSent(c) ==
  /\ tweetStore' = [tweetStore EXCEPT ![cyc[c].tweet].dmSent = "false"]
  /\ cyc' = [cyc EXCEPT ![c] = AfterDm(c)]

\* sendDirectMessage: the conversation lookup settles: a conversation with
\* the user is found, none is listed (a second lookup is made), or the answer
\* is unusable or an exception (sendDirectMessage returns false)
DmConversationsSettles(c) ==
  /\ main.pc = "running"
  /\ cyc[c].pc = "dmConversations"
  /\ \E o \in {"found", "none", "invalid", "throw"} :
       CASE o = "found" -> /\ cyc' = [cyc EXCEPT ![c].pc = "dmSend"]
                           /\ UNCHANGED tweetStore
         [] o = "none" -> /\ cyc' = [cyc EXCEPT ![c].pc = "dmNewConversation"]
                          /\ UNCHANGED tweetStore
         [] OTHER -> DmNotSent(c)
  /\ UNCHANGED <<fileBot, alsBot, apiBot, auth, variant, TWITTER_USERNAME,
                 apiKey, processedFile, cookiesFile, currentActiveTweet,
                 processedTweetIds, main, serverUp, timers, quotes, dms, http,
                 restarts, loadedIds>>

\* sendDirectMessage: the second lookup settles
DmNewConversationSettles(c) ==
  /\ main.pc = "running"
  /\ cyc[c].pc = "dmNewConversation"
  /\ \E o \in {"created", "failed", "throw"} :
       IF o = "created"
       THEN /\ cyc' = [cyc EXCEPT ![c].pc = "dmSend"]
            /\ UNCHANGED tweetStore
       ELSE DmNotSent(c)
  /\ UNCHANGED <<fileBot, alsBot, apiBot, auth, variant, TWITTER_USERNAME,
                 apiKey, processedFile, cookiesFile, currentActiveTweet,
                 processedTweetIds, main, serverUp, timers, quotes, dms, http,
                 restarts, loadedIds>>

\* sendDirectMessage: scraper.sendDirectMessage settles; dmSent records the
\* outcome and the quote is issued
DmSendSettles(c) ==
  /\ main.pc = "running"
  /\ cyc[c].pc = "dmSend"
  /\ \E o \in {"sent", "falsy", "throw"} :
       LET id == cyc[c].tweet
       IN /\ dms' = IF o = "sent"
                    THEN [dms EXCEPT ![id] = dms[id] + 1]
                    ELSE dms
          /\ tweetStore' = [tweetStore EXCEPT
                              ![id].dmSent = IF o = "sent" THEN "true" ELSE "false"]
          /\ cyc' = [cyc EXCEPT ![c] = AfterDm(c)]
  /\ UNCHANGED <<fileBot, alsBot, apiBot, auth, variant, TWITTER_USERNAME,
                 apiKey, processedFile, cookiesFile, currentActiveTweet,
                 processedTweetIds, main, serverUp, timers, quotes, http,
                 restarts, loadedIds>>

\* generateUniqueQuote: the OpenAI call settles; the quote is issued
UniqueQuoteSettles(c) ==
  /\ main.pc = "running"
  /\ cyc[c].pc = "generateUniqueQuote"
  /\ \E o \in OptimizeOutcomes :
       cyc' = [cyc EXCEPT
                 ![c].pc = "sendQuoteTweet",
                 ![c].optimizedResponse = <<>>,
                 ![c].quoteText =
                    QuoteText(variant, <<>>,
                      quoteTweetContent(variant,
                                        tweetStore[cyc[c].tweet].content,
                                        cyc[c].optimizedResponse, TRUE, o))]
  /\ UNCHANGED <<fileBot, alsBot, apiBot, auth, variant, TWITTER_USERNAME,
                 apiKey, processedFile, cookiesFile, tweetStore,
                 currentActiveTweet, processedTweetIds, main, serverUp,
                 timers, quotes, dms, http, restarts, loadedIds>>

\* The platform publishes the quote; its answer is on the way to the bot
QuoteAccepted(c) ==
  /\ main.pc = "running"
  /\ cyc[c].pc = "sendQuoteTweet"
  /\ quotes' = [quotes EXCEPT ![cyc[c].tweet] = @ + 1]
  /\ cyc' = [cyc EXCEPT ![c].pc = "quoteAccepted"]
  /\ UNCHANGED <<fileBot, alsBot, apiBot, auth, variant, TWITTER_USERNAME,
                 apiKey, processedFile, cookiesFile, tweetStore,
                 currentActiveTweet, processedTweetIds, main, serverUp,
                 timers, dms, http, restarts, loadedIds>>

\* sendQuoteTweet resolves: the tweet is marked processed and handled, the
\* set is saved, saveCookies is started
QuoteReturns(c) ==
  /\ main.pc = "running"
  /\ cyc[c].pc = "quoteAccepted"
  /\ tweetStore' = [tweetStore EXCEPT ![cyc[c].tweet].processed = TRUE]
  /\ \E writeOk \in BOOLEAN : MarkHandled(cyc[c].tweet, writeOk)
  /\ cyc' = [cyc EXCEPT ![c].pc = "getCookies"]
  /\ UNCHANGED <<fileBot, alsBot, apiBot, auth, variant, TWITTER_USERNAME,
                 apiKey, cookiesFile, currentActiveTweet, main, serverUp,
                 timers, quotes, dms, http, restarts, loadedIds>>

\* A catch block that also flags the post as processed
QuoteThrowsMarksProcessed(c) ==
  /\ main.pc = "running"
  /\ cyc[c].pc = "sendQuoteTweet"
  /\ CatchAndReturn(c)
  /\ tweetStore' = [tweetStore EXCEPT ![cyc[c].tweet].processed = TRUE]
  /\ UNCHANGED <<fileBot, alsBot, apiBot, auth, variant, TWITTER_USERNAME,
                 apiKey, cookiesFile, main, serverUp, quotes, dms, http,
                 restarts, loadedIds>>

\* sendQuoteTweet rejects: the catch block runs
QuoteThrows(c) ==
  /\ main.pc = "running"
  /\ cyc[c].pc = "sendQuoteTweet"
  /\ CatchAndReturn(c)
  /\ UNCHANGED <<fileBot, alsBot, apiBot, auth, variant, TWITTER_USERNAME,
                 apiKey, cookiesFile, tweetStore, main, serverUp, quotes, dms,
                 http, restarts, loadedIds>>

\* sendQuoteTweet never settles: no timer races the await
QuoteNeverSettles(c) ==
  /\ main.pc = "running"
  /\ cyc[c].pc = "sendQuoteTweet"
  /\ cyc' = [cyc EXCEPT ![c] = [IdleCycle EXCEPT !.pc = "hung",
                                                !.tweet = cyc[c].tweet]]
  /\ UNCHANGED <<fileBot, alsBot, apiBot, auth, variant, TWITTER_USERNAME,
                 apiKey, processedFile, cookiesFile, tweetStore,
                 currentActiveTweet, processedTweetIds, main, serverUp,
                 timers, quotes, dms, http, restarts, loadedIds>>

\* saveCookies settles (a failure of getCookies or of the write is caught);
\* the slot is cleared and the cycle returns
SaveCookiesSettles(c) ==
  /\ main.pc = "running"
  /\ cyc[c].pc = "getCookies"
  /\ \E saved \in BOOLEAN :
       cookiesFile' = IF saved THEN "present" ELSE cookiesFile
  /\ currentActiveTweet' = clearActive(currentActiveTweet, cyc[c].tweet)
  /\ EndCycle(c)
  /\ UNCHANGED <<fileBot, alsBot, apiBot, auth, variant, TWITTER_USERNAME,
                 apiKey, processedFile, tweetStore, processedTweetIds, main,
                 serverUp, quotes, dms, http, restarts, loadedIds>>

(***************************************************************************)
(* HTTP facade                                                             *)
(***************************************************************************)
\* Request bodies of POST /api/tweet-response.  A missing field and an empty
\* one are both the empty string; the tweetId "Number(1)" is the JSON number
\* 1, which is no key of tweetStore.  "malformed" is a body c.req.json()
\* rejects, "null" the JSON text null, on which body.tweetId throws.
RequestBodiesWith(replies) ==
  [kind : {"object"}, tweetId : {"", "1", "2", "9", "Number(1)"},
   response : {<<>>} \cup replies]
    \cup {[kind |-> k, tweetId |-> "", response |-> <<>>] :
            k \in {"malformed", "null"}}

Reply(route, body, code, status, tweet) ==
  [route |-> route, body |-> body, code |-> code, status |-> status,
   tweet |-> tweet, tweets |-> {}]

\* What the agent holds after an exchange, when its side is followed
Received(exchange) == IF http = Unobserved THEN Unobserved ELSE exchange

\* A handler that answers 200 with an empty tweet when nothing is active
currentTweetResponseAlways200(current, store) ==
  IF current = Null
  THEN Reply("current-tweet", NoBody, 200, "active", NoTweet)
  ELSE Reply("current-tweet", NoBody, 200, "active",
             [id |-> store[current].id, username |-> store[current].username,
              content |-> store[current].content])

\* GET /api/current-tweet: the response
currentTweetResponse(current, store) ==
  IF current = Null
  THEN Reply("current-tweet", NoBody, 404, "no_active_tweet", NoTweet)
  ELSE Reply("current-tweet", NoBody, 200, "active",
             [id |-> store[current].id, username |-> store[current].username,
              content |-> store[current].content])

GetCurrentTweet ==
  /\ serverUp
  /\ http' = Received(currentTweetResponse(currentActiveTweet, tweetStore))
  /\ UNCHANGED <<fileBot, alsBot, apiBot, auth, variant, TWITTER_USERNAME,
                 apiKey, processedFile, cookiesFile, tweetStore,
                 currentActiveTweet, processedTweetIds, main, serverUp, cyc,
                 timers, quotes, dms, restarts, loadedIds>>

\* A handler that looks the tweet up before it validates the body
tweetResponseCodeLookupFirst(body, store) ==
  IF body.kind # "object" THEN 500
  ELSE IF body.tweetId \notin DOMAIN store THEN 404
  ELSE IF ~Truthy(body.response) THEN 400
  ELSE 200

\* POST /api/tweet-response: the status code
tweetResponseCode(body, store) ==
  IF body.kind # "object" THEN 500
  ELSE IF body.tweetId = "" \/ ~Truthy(body.response) THEN 400
  ELSE IF body.tweetId \notin DOMAIN store THEN 404
  ELSE 200

PostTweetResponseFrom(bodies) ==
  /\ serverUp
  /\ \E body \in bodies :
       LET code == tweetResponseCode(body, tweetStore)
       IN /\ http' = Received(Reply("tweet-response", body, code,
                              IF code = 200 THEN "success" ELSE "error", NoTweet))
          /\ tweetStore' = IF code = 200
                           THEN [tweetStore EXCEPT
                                   ![body.tweetId].response = body.response]
                           ELSE tweetStore
  /\ UNCHANGED <<fileBot, alsBot, apiBot, auth, variant, TWITTER_USERNAME,
                 apiKey, processedFile, cookiesFile, currentActiveTweet,
                 processedTweetIds, main, serverUp, cyc, timers, quotes, dms,
                 restarts, loadedIds>>

RequestBodies == RequestBodiesWith(Replies)

\* The agent of part_001 also submits, for post "1", a reply that is no
\* string; with build.sh that reply is followed where the published text is
\* (RewriteBodies)
PostTweetResponse ==
  PostTweetResponseFrom(
    IF variant = "handoff"
    THEN RequestBodies
           \cup {[kind |-> "object", tweetId |-> "1", response |-> NumberReply]}
    ELSE RequestBodies)

ListingLimit == 100

\* GET /api/tweets: the entries of the response, one for each tracked post
\* (their order is left out)
tweetsListing(store, processed) ==
  LET tweetsEntry(tweet) ==
        [id |-> tweet.id,
         username |-> tweet.username,
         content |-> Substring0(tweet.content, ListingLimit)
                       \o (IF Len(tweet.content) > ListingLimit
                           THEN <<".", ".", ".">> ELSE <<>>),
         processed |-> (tweet.processed \/ SetHas(processed, tweet.id)),
         hasResponse |-> Truthy(tweet.response)]
  IN  {tweetsEntry(store[id]) : id \in DOMAIN store}

GetTweets ==
  /\ serverUp
  /\ http' = Received([Reply("tweets", NoBody, 200, "none", NoTweet) EXCEPT
                         !.tweets = tweetsListing(tweetStore, processedTweetIds)])
  /\ UNCHANGED <<fileBot, alsBot, apiBot, auth, variant, TWITTER_USERNAME,
                 apiKey, processedFile, cookiesFile, tweetStore,
                 currentActiveTweet, processedTweetIds, main, serverUp, cyc,
                 timers, quotes, dms, restarts, loadedIds>>

(***************************************************************************)
(* Authentication call by call: initializeTwitterClient (main of           *)
(* newsearch.ts), tryAuthWithCookies, loginWithCredentials, as main calls  *)
(* it at the start and a cycle after a failed liveness check.  A thrown    *)
(* value is an Error (name, message, first stack frame) or something else. *)
(***************************************************************************)
loginMaxRetries == 3
initMaxRetries == 3
BackoffUnit == 1000
InitBackoffUnit == 2000

NameError ==
  <<"E", "r", "r", "o", "r">>
KeyEtimedout ==
  <<"e", "t", "i", "m", "e", "d", "o", "u", "t">>
KeyNetwork ==
  <<"n", "e", "t", "w", "o", "r", "k">>
KeyTimeout ==
  <<"t", "i", "m", "e", "o", "u", "t">>
KeyFetchFailed ==
  <<"f", "e", "t", "c", "h", " ", "f", "a", "i", "l", "e", "d">>

\* new Error('Login timed out after 30 seconds'), rejected by the timer
TimerError == Thrown(TRUE, NameError, <<"L", "o", "g", "i", "n", " ", "t",
      "i", "m", "e", "d", " ", "o", "u", "t", " ", "a", "f", "t", "e", "r",
      " ", "3", "0", " ", "s", "e", "c", "o", "n", "d", "s">>, <<"T", "i",
      "m", "e", "o", "u", "t", ".", "_", "o", "n", "T", "i", "m", "e", "o",
      "u", "t">>)
\* What scraper.login (or isLoggedIn, me) may reject with: a socket timeout,
\* undici's TypeError, a refusal by the platform, a value that is no Error
LoginRejections ==
  LET MsgDenied ==
        <<"I", "n", "c", "o", "r", "r", "e", "c", "t", " ", "p", "a", "s",
          "s", "w", "o", "r", "d">>
      FrameLogin ==
        <<"S", "c", "r", "a", "p", "e", "r", ".", "l", "o", "g", "i", "n">>
  IN  {Thrown(TRUE, NameError, <<"c", "o", "n", "n", "e", "c", "t", " ", "E",
              "T", "I", "M", "E", "D", "O", "U", "T">>, FrameLogin),
       Thrown(TRUE, <<"T", "y", "p", "e", "E", "r", "r", "o", "r">>,
              <<"f", "e", "t", "c", "h", " ", "f", "a", "i", "l", "e", "d">>,
              FrameLogin),
       Thrown(TRUE, NameError, MsgDenied, FrameLogin),
       Thrown(FALSE, <<>>, MsgDenied, <<>>)}
\* Errors the code itself throws; the first frame of the stack is the
\* function that constructs the Error
NotLoggedInError == Thrown(TRUE, NameError, <<"F", "a", "i", "l", "e", "d",
      " ", "t", "o", " ", "l", "o", "g", " ", "i", "n", " ", "t", "o", " ",
      "T", "w", "i", "t", "t", "e", "r", " ", "w", "i", "t", "h", " ", "u",
      "s", "e", "r", "n", "a", "m", "e", "/", "p", "a", "s", "s", "w", "o",
      "r", "d">>, <<"l", "o", "g", "i", "n", "W", "i", "t", "h", "C", "r",
      "e", "d", "e", "n", "t", "i", "a", "l", "s">>)
NoCredentialsError == Thrown(TRUE, NameError, <<"T", "w", "i", "t", "t", "e",
      "r", " ", "c", "r", "e", "d", "e", "n", "t", "i", "a", "l", "s", " ",
      "n", "o", "t", " ", "f", "o", "u", "n", "d", " ", "i", "n", " ", "e",
      "n", "v", "i", "r", "o", "n", "m", "e", "n", "t", " ", "v", "a", "r",
      "i", "a", "b", "l", "e", "s">>, <<"l", "o", "g", "i", "n", "W", "i",
      "t", "h", "C", "r", "e", "d", "e", "n", "t", "i", "a", "l", "s">>)
NotAuthenticatedError == Thrown(TRUE, NameError, <<"F", "a", "i", "l", "e",
      "d", " ", "t", "o", " ", "a", "u", "t", "h", "e", "n", "t", "i", "c",
      "a", "t", "e", " ", "w", "i", "t", "h", " ", "T", "w", "i", "t", "t",
      "e", "r">>, <<"i", "n", "i", "t", "i", "a", "l", "i", "z", "e", "T",
      "w", "i", "t", "t", "e", "r", "C", "l", "i", "e", "n", "t">>)

\* error.stack as V8 builds it: "Name: message\n    at frame"
Stack(e) == e.name \o <<":", " ">> \o e.message \o <<"\n", " ", " ", " ", " ",
      "a", "t", " ">> \o e.frame

\* The test of loginWithCredentials' catch block on an Error
LoginRetryable(e) ==
  LET errorMessage == ToLowerCase(e.message)
      errorStack == ToLowerCase(Stack(e))
  IN \/ Includes(errorMessage, KeyEtimedout)
     \/ Includes(errorMessage, KeyNetwork)
     \/ Includes(errorMessage, KeyTimeout)
     \/ Includes(errorStack, KeyEtimedout)
     \/ Includes(errorStack, KeyFetchFailed)

\* isNetworkError of initializeTwitterClient's catch block
isNetworkError(e) ==
  LET errorMessage == ToLowerCase(e.message)
      errorStack == ToLowerCase(Stack(e))
  IN \/ Includes(errorMessage, KeyEtimedout)
     \/ Includes(errorMessage, KeyNetwork)
     \/ Includes(errorMessage, KeyFetchFailed)
     \/ Includes(errorMessage, KeyTimeout)
     \/ Includes(errorStack, KeyEtimedout)
     \/ Includes(errorStack, KeyFetchFailed)

\* The catch block of loginWithCredentials (build.sh): the value of retries
\* it leaves and whether the loop is left by break
LoginCatch(e, retries) ==
  IF e.isError
  THEN IF LoginRetryable(e)
       THEN [retries |-> retries + 1, break |-> FALSE]
       ELSE [retries |-> retries, break |-> TRUE]
  ELSE [retries |-> retries + 1, break |-> FALSE]

\* The catch block of initializeTwitterClient (build.sh) on an Error: the
\* value of retryCount it leaves and whether it throws
InitCatch(e, retryCount) ==
  IF isNetworkError(e) /\ retryCount < initMaxRetries - 1
  THEN [retryCount |-> retryCount + 1, throws |-> FALSE]
  ELSE IF retryCount < initMaxRetries - 1
  THEN [retryCount |-> retryCount + 1, throws |-> FALSE]
  ELSE [retryCount |-> retryCount, throws |-> TRUE]

\* build.sh 396-1180: dns.lookup calls back, with or without an error.  main
\* loads the handled set, starts the server and calls
\* initializeTwitterClient for the first attempt of its bootstrap loop.
LookupSettles ==
  /\ main.pc = "lookup"
  /\ processedTweetIds' = loadProcessedTweets(processedFile, processedTweetIds)
  /\ loadedIds' = IF processedFile.kind = "array"
                  THEN Elems(processedFile.ids) ELSE {}
  /\ serverUp' = TRUE
  /\ main' = [pc |-> "initializing", i |-> 0]
  /\ auth' = [auth EXCEPT !.pc = "cookies", !.cookieCalls = 1]
  /\ UNCHANGED <<fileBot, alsBot, apiBot, variant, TWITTER_USERNAME, apiKey,
                 processedFile, cookiesFile, tweetStore, currentActiveTweet,
                 cyc, timers, quotes, dms, http, restarts>>

\* main calls initializeTwitterClient (newsearch.ts: main reaches line 26;
\* build.sh: also a later attempt of the bootstrap loop, its delay over)
AuthStart ==
  /\ main.pc = "initializing"
  /\ auth.pc = "idle"
  /\ auth' = [auth EXCEPT !.pc = "cookies", !.cookieCalls = 1]
  /\ UNCHANGED <<fileBot, alsBot, apiBot, variant, TWITTER_USERNAME, apiKey,
                 processedFile, cookiesFile, tweetStore, currentActiveTweet,
                 processedTweetIds, main, serverUp, cyc, timers, quotes, dms,
                 http, restarts, loadedIds>>

\* The initialization attempt has failed with Error e
InitFails(a, e) ==
  IF a.program \in SingleAttempt THEN [a EXCEPT !.pc = "threw"]
  ELSE IF a.program = "newsearch.ts" THEN [a EXCEPT !.pc = "exited"]
  ELSE LET r == InitCatch(e, a.retryCount)
       IN IF r.throws
          THEN [a EXCEPT !.pc = "threw"]
          ELSE [a EXCEPT !.pc = "initBackoff", !.retryCount = r.retryCount,
                         !.delay = r.retryCount * InitBackoffUnit]

\* loginWithCredentials has returned false
LoginReturnsFalse(a) ==
  InitFails([a EXCEPT !.loginResult = "false"], NotAuthenticatedError)

\* loginWithCredentials is called with the cookie file in state file
LoginCalled(a, file) ==
  LET called == [a EXCEPT !.loginCalls = a.loginCalls + 1,
                          !.fileAtLogin = file,
                          !.retries = 0, !.attempts = 0,
                          !.loginResult = "none", !.thrown = NoError]
  IN IF a.credentials
     THEN [called EXCEPT !.pc = "login", !.attempts = 1]
     ELSE IF a.program = "newsearch.ts"
     THEN LoginReturnsFalse([called EXCEPT !.thrown = NoCredentialsError])
     ELSE InitFails([called EXCEPT !.loginResult = "threw",
                                   !.thrown = NoCredentialsError],
                    NoCredentialsError)

\* How scraper.me() may go once isLoggedIn has answered true: build.sh
\* races it against a 15 s timer, part_001 and english_tweet.ts await it as
\* it is, newsearch.ts and handle-cookies.ts do not call it
IdentityFetches(program) ==
  CASE program = "build.sh" -> {"ok", "throw", "timer"}
    [] program \in {"part_001", "english_tweet.ts"} ->
         {"ok", "throw", "never"}
    [] OTHER -> {"none"}

\* tryAuthWithCookies: what it returns ("pending": it never returns)
tryAuthWithCookies(program, file, isLoggedIn, me) ==
  IF file # "present" \/ ~isLoggedIn THEN "false"
  ELSE IF program \in SingleAttempt
  THEN CASE me = "throw" -> "false"
         [] me = "never" -> "pending"
         [] OTHER -> "true"
  ELSE "true"

\* tryAuthWithCookies settles: true when the file is there and the platform
\* accepts its cookies.  On false the file is removed where the code does
\* so (unlinkOk: whether unlinkSync succeeds) and loginWithCredentials is
\* called.
CookieAttemptSettles ==
  /\ auth.pc = "cookies"
  /\ \E accepted, unlinkOk \in BOOLEAN, me \in IdentityFetches(auth.program) :
       LET checked == cookiesFile = "present" /\ accepted
           result == tryAuthWithCookies(auth.program, cookiesFile, accepted, me)
           authenticated == result = "true"
           tried == [auth EXCEPT
                       !.cookieResult = IF result = "pending" THEN "none"
                                        ELSE result,
                       !.isLoggedIn = IF checked THEN "true" ELSE "false",
                       !.me = IF checked THEN me ELSE "none"]
           unlinks == cookiesFile = "present" /\ auth.program # "newsearch.ts"
           file == IF unlinks /\ unlinkOk THEN "missing" ELSE cookiesFile
       IN IF result = "pending"
          THEN /\ auth' = [tried EXCEPT !.pc = "meHung"]
               /\ UNCHANGED cookiesFile
          ELSE IF authenticated
          THEN /\ auth' = [tried EXCEPT !.pc = "returned"]
               /\ UNCHANGED cookiesFile
          ELSE IF unlinks /\ ~unlinkOk /\ auth.program \in SingleAttempt
          THEN /\ auth' = [tried EXCEPT !.pc = "threw"]
               /\ UNCHANGED cookiesFile
          ELSE /\ auth' = LoginCalled(tried, file)
               /\ cookiesFile' = file
  /\ UNCHANGED <<fileBot, alsBot, apiBot, variant, TWITTER_USERNAME, apiKey,
                 processedFile, tweetStore, currentActiveTweet,
                 processedTweetIds, main, serverUp, cyc, timers, quotes, dms,
                 http, restarts, loadedIds>>

\* How one attempt may settle: the timer wins the race (build.sh only, the
\* other programs await scraper.login itself), scraper.login (or a call
\* after it) rejects, or login resolves and isLoggedIn answers
LoginOutcomes(program) ==
  (IF program = "build.sh"
   THEN {[kind |-> "timer", loggedIn |-> FALSE, error |-> TimerError]}
   ELSE {})
    \cup {[kind |-> "rejected", loggedIn |-> FALSE, error |-> e] :
            e \in LoginRejections}
    \cup {[kind |-> "resolved", loggedIn |-> b, error |-> NoError] :
            b \in BOOLEAN}

\* One attempt of loginWithCredentials settles
LoginAttemptSettles ==
  /\ auth.pc = "login"
  /\ \E o \in LoginOutcomes(auth.program), saveOk \in BOOLEAN :
       IF o.kind = "resolved" /\ o.loggedIn
       THEN /\ auth' = [auth EXCEPT !.pc = "returned", !.loginResult = "true",
                                    !.thrown = NoError]
            /\ cookiesFile' = IF saveOk THEN "present" ELSE cookiesFile
       ELSE /\ UNCHANGED cookiesFile
            /\ IF auth.program = "build.sh"
               THEN LET e == IF o.kind = "resolved"
                             THEN NotLoggedInError ELSE o.error
                        r == LoginCatch(e, auth.retries)
                        caught == [auth EXCEPT !.thrown = e,
                                               !.retries = r.retries]
                    IN IF ~r.break /\ r.retries < loginMaxRetries
                       THEN auth' = [caught EXCEPT
                                       !.pc = "loginBackoff",
                                       !.delay = (2 ^ r.retries) * BackoffUnit]
                       ELSE auth' = LoginReturnsFalse(caught)
               ELSE LET e == IF o.kind # "resolved" THEN o.error
                             ELSE IF auth.program \in SingleAttempt
                             THEN NotLoggedInError ELSE NoError
                    IN auth' = LoginReturnsFalse([auth EXCEPT !.thrown = e])
  /\ UNCHANGED <<fileBot, alsBot, apiBot, variant, TWITTER_USERNAME, apiKey,
                 processedFile, tweetStore, currentActiveTweet,
                 processedTweetIds, main, serverUp, cyc, timers, quotes, dms,
                 http, restarts, loadedIds>>

\* The delay before the next attempt has run: scraper.login is called again
LoginBackoffElapses ==
  /\ auth.pc = "loginBackoff"
  /\ auth' = [auth EXCEPT !.pc = "login", !.delay = 0,
                          !.attempts = auth.attempts + 1]
  /\ UNCHANGED <<fileBot, alsBot, apiBot, variant, TWITTER_USERNAME, apiKey,
                 processedFile, cookiesFile, tweetStore, currentActiveTweet,
                 processedTweetIds, main, serverUp, cyc, timers, quotes, dms,
                 http, restarts, loadedIds>>

\* The delay before the next try of initializeTwitterClient has run: a new
\* Scraper is made and tryAuthWithCookies is called again
InitBackoffElapses ==
  /\ auth.pc = "initBackoff"
  /\ auth' = [auth EXCEPT !.pc = "cookies", !.delay = 0,
                          !.cookieCalls = auth.cookieCalls + 1]
  /\ UNCHANGED <<fileBot, alsBot, apiBot, variant, TWITTER_USERNAME, apiKey,
                 processedFile, cookiesFile, tweetStore, currentActiveTweet,
                 processedTweetIds, main, serverUp, cyc, timers, quotes, dms,
                 http, restarts, loadedIds>>

\* main(): the awaited initializeTwitterClient has ended.  When it returned
\* the server is up and the first runProcessingCycle() is called; when it
\* threw, the bootstrap loop goes on or, after the last attempt, the process
\* exits
MainAfterInitialize ==
  /\ main.pc = "initializing"
  /\ auth.pc \in {"returned", "threw"}
  /\ auth' = [NoAuth(auth.program) EXCEPT !.credentials = auth.credentials]
  /\ IF auth.pc = "returned"
     THEN /\ main' = [pc |-> "running", i |-> 0]
          /\ serverUp' = TRUE
          /\ RunHead(1, timers)
     ELSE /\ IF LastAttempt(variant, main.i)
             THEN /\ main' = [pc |-> "exited", i |-> 0]
                  /\ serverUp' = FALSE
             ELSE /\ main' = [main EXCEPT !.i = main.i + 1]
                  /\ serverUp' = serverUp
          /\ UNCHANGED <<cyc, timers>>
  /\ UNCHANGED <<TWITTER_USERNAME, fileBot, alsBot, apiBot, variant, apiKey,
                 processedFile, cookiesFile, tweetStore, currentActiveTweet,
                 processedTweetIds, quotes, dms, http, restarts, loadedIds>>

(***************************************************************************)
(* Specification                                                           *)
(***************************************************************************)
\* The steps of a cycle both bots have, and those of build.sh alone
HandoffStep(c) ==
  \/ SearchSettles(c)
  \/ WaitTick(c)
  \/ QuoteAccepted(c)
  \/ QuoteReturns(c)
  \/ QuoteThrows(c)
  \/ QuoteNeverSettles(c)
  \/ SaveCookiesSettles(c)

DmStep(c) ==
  \/ IsLoggedInSettles(c)
  \/ ReAuthenticate(c)
  \/ MeSettles(c)
  \/ OpenAiSettles(c)
  \/ DmConversationsSettles(c)
  \/ DmNewConversationSettles(c)
  \/ DmSendSettles(c)

Next ==
  \/ AuthStart
  \/ CookieAttemptSettles
  \/ LoginAttemptSettles
  \/ LoginBackoffElapses
  \/ InitBackoffElapses
  \/ MainAfterInitialize
  \/ RunProcessingCycle
  \/ \E c \in Cycles : HandoffStep(c)
  \/ \E c \in Cycles : DmStep(c)
  \/ GetCurrentTweet
  \/ PostTweetResponse
  \/ GetTweets

Spec == Init /\ [][Next]_vars

\* The bot of part_001 with the agent's side of the HTTP exchange followed
InitFacade ==
  InitWith({"handoff"},
           [route |-> "none", body |-> NoBody, code |-> 0, status |-> "none",
            tweet |-> NoTweet, tweets |-> {}])

NextFacade ==
  \/ AuthStart
  \/ CookieAttemptSettles
  \/ LoginAttemptSettles
  \/ MainAfterInitialize
  \/ RunProcessingCycle
  \/ \E c \in Cycles : HandoffStep(c)
  \/ GetCurrentTweet
  \/ PostTweetResponse
  \/ GetTweets

SpecFacade == InitFacade /\ [][NextFacade]_vars

\* part_001 at its first start

\* The bot of part_001 killed and restarted
NextRestart ==
  \/ AuthStart
  \/ CookieAttemptSettles
  \/ LoginAttemptSettles
  \/ MainAfterInitialize
  \/ RunProcessingCycle
  \/ \E c \in Cycles : HandoffStep(c)
  \/ GetCurrentTweet
  \/ PostTweetResponse
  \/ GetTweets
  \/ Restart

SpecRestart == InitWith({"handoff"}, Unobserved) /\ [][NextRestart]_vars

(***************************************************************************)
(* Properties                                                              *)
(***************************************************************************)
\* Positions of a cycle inside processTweetAndRespond
ProcessingPcs == {"waiting", "openai", "generateUniqueQuote",
                  "dmConversations", "dmNewConversation", "dmSend",
                  "sendQuoteTweet", "quoteAccepted", "getCookies", "hung"}

Processing(c) == cyc[c].pc \in ProcessingPcs

\* C1: at most one tracked post is active at any time: at most one cycle is
\* inside processTweetAndRespond, the post it processes is the one in
\* currentActiveTweet, and while the slot is occupied no other cycle is under
\* way (none is at the liveness check, the identity lookup or the search).
C1_OneActivePost ==
  /\ Cardinality({c \in Cycles : Processing(c)}) <= 1
  /\ \A c \in Cycles : Processing(c) => cyc[c].tweet = currentActiveTweet
  /\ currentActiveTweet # Null =>
       /\ currentActiveTweet \in DOMAIN tweetStore
       /\ \E c \in Cycles : Processing(c)
       /\ \A c \in Cycles : cyc[c].pc = "idle" \/ Processing(c)

\* A second post is active, the first one handled, its waiter half-way
C1_Witness ==
  /\ currentActiveTweet # Null
  /\ processedTweetIds # <<>>
  /\ \E c \in Cycles : /\ cyc[c].pc = "waiting"
                        /\ cyc[c].tweet = currentActiveTweet
                        /\ cyc[c].elapsedTime >= 2 * CheckInterval

\* The platform account the bot is logged in as, compared as the code compares
OwnAccount(username) == ToLowerCase(username) = ToLowerCase(MeUsername)

\* C2: searchForLatestTweet never returns a post whose ID is in the handled
\* set or whose author is, case-insensitively, the bot's own account: the
\* post a cycle has just taken from the search is neither.
C2_NeverOwnNorHandled ==
  \A c \in Cycles :
    cyc[c].pc = "waiting" =>
      /\ ~SetHas(processedTweetIds, cyc[c].tweet)
      /\ ~OwnAccount(tweetStore[cyc[c].tweet].username)

\* The waiter of cycle c runs out of budget in this step: its tick finds no
\* reply and the elapsed time at the budget, and the cycle returns.  (A tick
\* that finds a reply resolves by the reply, also when the responder then
\* throws and the cycle returns in the same step.)
TimesOut(c) ==
  /\ cyc[c].pc = "waiting"
  /\ ~Truthy(tweetStore[cyc[c].tweet].response)
  /\ cyc[c].elapsedTime + CheckInterval >= waitTimeMs(variant)
  /\ cyc'[c].pc = "idle"

\* C3: when the waiter's budget elapses without a reply the cycle ends with
\* the post's ID in processedTweetIds, the processed-IDs file rewritten to
\* include it, the slot null, and neither a quote nor a DM sent for the post.
C3_TimeoutHandledAndPersisted ==
  [][\A c \in Cycles :
       TimesOut(c) =>
         /\ SetHas(processedTweetIds', cyc[c].tweet)
         /\ processedFile'.kind = "array"
         /\ SetHas(processedFile'.ids, cyc[c].tweet)
         /\ currentActiveTweet' = Null
         /\ quotes'[cyc[c].tweet] = 0
         /\ dms'[cyc[c].tweet] = 0]_vars

\* Positions at which the responder has taken over from the waiter
PublishingPcs == {"openai", "dmConversations", "sendQuoteTweet"}

\* The waiter has resolved with a reply that is no string: the responder's
\* reply branch threw at its first substring call, the catch block marked
\* the post handled and cleared the slot and the cycle returned, all in the
\* step of the tick
ResponderThrew(c) ==
  /\ ~IsString(tweetStore[cyc[c].tweet].response)
  /\ cyc'[c].pc = "idle"
  /\ SetHas(processedTweetIds', cyc[c].tweet)
  /\ currentActiveTweet' = Null
  /\ quotes' = quotes
  /\ dms' = dms

\* C4: once a non-empty reply is stored for the active post while the waiter
\* polls, the waiter's next tick resolves it and the cycle goes on to
\* publish, whatever is left of the budget.  (A reply that is no string is
\* taken up at that tick as well; the responder's reply branch then throws
\* before it issues the quote.)
C4_ReplyResolvesAtNextTick ==
  [][\A c \in Cycles :
       (/\ cyc[c].pc = "waiting"
        /\ Truthy(tweetStore[cyc[c].tweet].response)
        /\ cyc'[c] # cyc[c])
         => \/ cyc'[c].pc \in PublishingPcs
            \/ ResponderThrew(c)]_vars

\* The responder has taken over at the third tick, most of the budget unused
C4_Witness ==
  \E c \in Cycles :
    /\ cyc[c].pc \in PublishingPcs
    /\ cyc[c].elapsedTime = 3 * CheckInterval
    /\ Truthy(tweetStore[cyc[c].tweet].response)
    /\ currentActiveTweet = cyc[c].tweet

\* C5: processTweetAndRespond returns normally on every path, and whenever
\* it returns the slot is null and the post is in the handled set.
C5_ReturnsWithSlotCleared ==
  [][\A c \in Cycles :
       (Processing(c) /\ cyc'[c].pc = "idle")
         => /\ currentActiveTweet' = Null
            /\ SetHas(processedTweetIds', cyc[c].tweet)
            /\ timers' = timers + 1]_vars

\* The DM was sent, the quote failed: the catch block has run, the cycle has
\* returned, the slot is free
C5_Witness ==
  /\ currentActiveTweet = Null
  /\ \A c \in Cycles : cyc[c].pc = "idle"
  /\ timers = 1
  /\ \E id \in DOMAIN tweetStore :
       /\ tweetStore[id].dmSent = "true"
       /\ ~tweetStore[id].processed
       /\ quotes[id] = 0
       /\ SetHas(processedTweetIds, id)

\* C6: a publish call that never returns cannot block the bot: no cycle is
\* ever left waiting on sendQuoteTweet for good with the slot occupied and no
\* next cycle scheduled.
C6_PublishCannotBlock ==
  ~ \E c \in Cycles :
      /\ cyc[c].pc = "hung"
      /\ currentActiveTweet = cyc[c].tweet
      /\ timers = 0

\* C7: a post whose quote has been published is never published again, also
\* when the process is stopped at any point and restarted.
C7_PublishedOnce == \A id \in IDs : quotes[id] <= 1

\* C8: after a restart every ID of the persisted array is in
\* processedTweetIds before the first search runs, and no search of that run
\* returns such an ID.
C8_LoadedIdsNeverSelected ==
  /\ loadedIds \subseteq Elems(processedTweetIds)
  /\ \A c \in Cycles : Processing(c) => cyc[c].tweet \notin loadedIds

\* After a restart a search has passed over an ID of the file and returned
\* another post
C8_Witness ==
  /\ restarts >= 1
  /\ \E c \in Cycles :
       /\ cyc[c].pc = "waiting"
       /\ cyc[c].skipped \cap loadedIds # {}

\* C9: POST /api/tweet-response with a JSON body answers 400 when tweetId or
\* response is missing or empty, 404 when tweetId is not a key of tweetStore,
\* and otherwise 200 {status: success} after setting response on that tracked
\* post; on 400 and 404 the tracked posts are unchanged, and the slot, the
\* handled set and its file are never touched.
C9_TweetResponseCodes ==
  [][(PostTweetResponse /\ http'.body.kind = "object") =>
       LET body == http'.body
           missing == body.tweetId = "" \/ body.response = <<>>
           known == body.tweetId \in DOMAIN tweetStore
       IN /\ http'.route = "tweet-response"
          /\ missing => http'.code = 400 /\ tweetStore' = tweetStore
          /\ (~missing /\ ~known) => http'.code = 404 /\ tweetStore' = tweetStore
          /\ (~missing /\ known) =>
               /\ http'.code = 200
               /\ http'.status = "success"
               /\ tweetStore' = [tweetStore EXCEPT
                                   ![body.tweetId].response = body.response]
          /\ http'.code \in {400, 404} => http'.status = "error"
          /\ UNCHANGED <<currentActiveTweet, processedTweetIds, processedFile>>]_vars

\* A reply for the active post has been accepted with 200 and is stored
C9_Witness ==
  /\ http.route = "tweet-response"
  /\ http.code = 200
  /\ http.body.tweetId = currentActiveTweet
  /\ tweetStore[http.body.tweetId].response = http.body.response
  /\ Truthy(http.body.response)

\* C10: GET /api/current-tweet answers 404 {status: no_active_tweet} exactly
\* when currentActiveTweet is null and otherwise 200 with the id, username
\* and content of the active post; it changes neither tweetStore nor the slot
\* nor the handled set.
C10_CurrentTweet ==
  [][GetCurrentTweet =>
       /\ http'.route = "current-tweet"
       /\ (http'.code = 404) <=> (currentActiveTweet = Null)
       /\ currentActiveTweet = Null =>
            http'.status = "no_active_tweet" /\ http'.tweet = NoTweet
       /\ currentActiveTweet # Null =>
            /\ http'.code = 200
            /\ http'.status = "active"
            /\ http'.tweet.id = currentActiveTweet
            /\ http'.tweet.username = tweetStore[currentActiveTweet].username
            /\ http'.tweet.content = tweetStore[currentActiveTweet].content
       /\ UNCHANGED <<tweetStore, currentActiveTweet, processedTweetIds,
                      processedFile>>]_vars

\* The agent has fetched the active post while its waiter polls
C10_Witness ==
  /\ http.route = "current-tweet"
  /\ http.code = 200
  /\ http.tweet.id = currentActiveTweet
  /\ \E c \in Cycles : cyc[c].pc = "waiting" /\ cyc[c].tweet = http.tweet.id

\* Invocations of runProcessingCycle that have started and not returned
Running == {c \in Cycles : cyc[c].pc # "idle"}

\* C11: every runProcessingCycle invocation schedules exactly one next
\* invocation on whichever path it returns: once the first invocation has
\* been made there is always exactly one invocation either under way or
\* scheduled, never none and never two.
C11_ExactlyOneNextInvocation ==
  main.pc = "running" => timers + Cardinality(Running) = 1

\* The next invocation is scheduled after a cycle that published and a cycle
\* that ended without a quote
C11_Witness ==
  /\ main.pc = "running"
  /\ timers = 1
  /\ Running = {}
  /\ \E id1, id2 \in Elems(processedTweetIds) :
       quotes[id1] = 1 /\ quotes[id2] = 0

\* The state of the cycle state machine a position belongs to
StageOf(pc) ==
  CASE pc = "idle" -> "IDLE"
    [] pc \in {"isLoggedIn", "initializeTwitterClient", "me",
               "fetchSearchTweets"} -> "SEARCHING"
    [] pc = "waiting" -> "AWAITING_REPLY"
    [] OTHER -> "PUBLISHING"

\* C12: a cycle passes SEARCHING, AWAITING_REPLY, PUBLISHING and IDLE in that
\* order: waiting starts from the search only and with the post already in
\* the slot, the responder starts from the waiter only, and the cycle turns
\* idle only once the responder has finished: after the publishing steps, in
\* the step of the last tick, in which the responder marks the unanswered
\* post handled and clears the slot, or in the step in which its reply
\* branch throws on a reply that is no string.
C12_StagesInOrder ==
  [][\A c \in Cycles :
       LET from == StageOf(cyc[c].pc)
           to == StageOf(cyc'[c].pc)
           id == cyc[c].tweet
       IN /\ (to = "SEARCHING" /\ from # to) => from = "IDLE"
          /\ (to = "AWAITING_REPLY" /\ from # to) =>
               /\ from = "SEARCHING"
               /\ currentActiveTweet' = cyc'[c].tweet
               /\ cyc'[c].tweet \in DOMAIN tweetStore'
               /\ cyc'[c].elapsedTime = 0
          /\ (to = "PUBLISHING" /\ from # to) =>
               /\ from = "AWAITING_REPLY"
               /\ Truthy(tweetStore[id].response)
          /\ (to = "IDLE" /\ from = "AWAITING_REPLY") =>
               /\ \/ /\ ~Truthy(tweetStore[id].response)
                     /\ cyc[c].elapsedTime + CheckInterval
                          >= waitTimeMs(variant)
                  \/ ResponderThrew(c)
               /\ SetHas(processedTweetIds', id)
               /\ currentActiveTweet' = Null
          /\ (to = "IDLE" /\ from = "PUBLISHING") =>
               /\ \/ cyc[c].pc \in {"sendQuoteTweet", "getCookies"}
                  \/ /\ cyc[c].pc = "openai"
                     /\ \/ ~IsString(cyc[c].responseText)
                        \/ ResponderThrew(c)
               /\ SetHas(processedTweetIds', id)
               /\ currentActiveTweet' = Null]_vars

\* A cycle has searched, waited and published and is about to turn idle
C12_Witness ==
  \E c \in Cycles :
    /\ cyc[c].pc = "getCookies"
    /\ currentActiveTweet = cyc[c].tweet
    /\ tweetStore[cyc[c].tweet].processed
    /\ quotes[cyc[c].tweet] = 1

\* C13: when the liveness check returns false, throws or runs into its timer
\* the cycle runs initializeTwitterClient; when that fails the cycle returns
\* without a search, the process keeps running and the next cycle is
\* scheduled; when it succeeds the search of this cycle is made with the
\* client it returned.
C13_ReauthenticateOrSkip ==
  [][\A c \in Cycles :
       /\ (cyc[c].pc = "isLoggedIn" /\ cyc'[c] # cyc[c]) =>
            /\ cyc'[c].isAuthenticated \in LivenessOutcomes
            /\ cyc'[c].isAuthenticated # "true" =>
                 cyc'[c].pc = "initializeTwitterClient"
            /\ cyc'[c].isAuthenticated = "true" =>
                 cyc'[c].pc = "me" /\ cyc'[c].scraper = "held"
       /\ (cyc[c].pc = "initializeTwitterClient" /\ cyc'[c] # cyc[c]) =>
            \/ /\ cyc'[c].pc = "idle"
               /\ timers' = timers + 1
               /\ main' = main
               /\ UNCHANGED <<tweetStore, currentActiveTweet, processedTweetIds>>
            \/ /\ cyc'[c].pc = "me"
               /\ cyc'[c].scraper = "new"
       /\ (cyc[c].pc = "me" /\ cyc'[c] # cyc[c]) =>
            /\ cyc'[c].pc = "fetchSearchTweets"
            /\ cyc[c].isAuthenticated # "true" => cyc[c].scraper = "new"]_vars

\* After a liveness check that timed out searchForLatestTweet runs with the
\* client the re-authentication returned
C13_Witness ==
  \E c \in Cycles :
    /\ cyc[c].pc = "me"
    /\ cyc[c].isAuthenticated = "timeout"
    /\ cyc[c].scraper = "new"

\* C14: each tick of the waiter adds 5 s to the accumulated wait and looks at
\* the reply: with a reply the waiter resolves and the responder takes over,
\* at the final tick too (on a reply that is no string the responder throws
\* in that step); without one the waiter goes on while the accumulated wait
\* is below the budget and gives up at the tick that reaches it, so it never
\* makes more than budget / 5 s ticks.
C14_WaiterTicks ==
  [][\A c \in Cycles :
       (cyc[c].pc = "waiting" /\ cyc'[c] # cyc[c]) =>
         LET elapsed == cyc[c].elapsedTime + CheckInterval
             budget == waitTimeMs(variant)
             reply == Truthy(tweetStore[cyc[c].tweet].response)
         IN /\ elapsed <= budget
            /\ reply =>
                 \/ /\ cyc'[c].pc \in PublishingPcs
                    /\ cyc'[c].elapsedTime = elapsed
                 \/ ResponderThrew(c)
            /\ (~reply /\ elapsed < budget) =>
                 /\ cyc'[c].pc = "waiting"
                 /\ cyc'[c].elapsedTime = elapsed
            /\ (~reply /\ elapsed >= budget) => cyc'[c].pc = "idle"]_vars

\* A reply that was there at the final tick has been taken as arrived
C14_Witness ==
  \E c \in Cycles :
    /\ cyc[c].pc \in PublishingPcs
    /\ cyc[c].elapsedTime = waitTimeMs(variant)

\* C15: a reply submitted for a tracked post after its cycle has ended (its
\* waiter timed out) is accepted with 200 and stored, and GET /api/tweets
\* then lists the post with hasResponse true; it changes neither the handled
\* set nor the slot, the post is not taken up by any later cycle, and no
\* quote and no DM is sent for it.
C15_LateReplyIgnored ==
  [][\A id \in DOMAIN tweetStore :
       SetHas(processedTweetIds, id) =>
         /\ \A reply \in Replies :
              tweetResponseCode([kind |-> "object", tweetId |-> id,
                                 response |-> reply], tweetStore) = 200
         /\ quotes'[id] = quotes[id]
         /\ dms'[id] = dms[id]
         /\ \A c \in Cycles : cyc'[c].tweet = id => cyc[c].tweet = id
         /\ tweetStore'[id].response # tweetStore[id].response =>
              /\ PostTweetResponse
              /\ UNCHANGED <<processedTweetIds, processedFile,
                             currentActiveTweet, cyc, timers>>
              /\ \E e \in tweetsListing(tweetStore', processedTweetIds') :
                   e.id = id /\ e.hasResponse /\ e.processed]_vars

\* A post whose waiter timed out (the responder never saw a reply: nothing
\* was rewritten, no DM was tried) holds a reply now; it was never quoted,
\* and another post is being waited for
C15_Witness ==
  \E id \in DOMAIN tweetStore :
    /\ SetHas(processedTweetIds, id)
    /\ Truthy(tweetStore[id].response)
    /\ tweetStore[id].refinedResponse = <<>>
    /\ tweetStore[id].dmSent = "undefined"
    /\ variant = "dm"
    /\ quotes[id] = 0 /\ dms[id] = 0
    /\ currentActiveTweet \notin {Null, id}

\* C16: loginWithCredentials is called only after tryAuthWithCookies has
\* returned false, and a cookie file that exists when the cookie attempt
\* has failed is gone when the credential login starts.
C16_CookiesFirstThenDeleted ==
  [][auth'.loginCalls # auth.loginCalls =>
       /\ auth.pc = "cookies"
       /\ auth'.loginCalls <= auth'.cookieCalls
       /\ auth'.cookieResult = "false"
       /\ cookiesFile = "present" => auth'.fileAtLogin = "missing"]_vars

\* C17: one loginWithCredentials call makes at most 3 scraper.login
\* attempts; after a failed attempt a further one follows only when the
\* error is classified network-transient, and with any other error the call
\* ends with false.
C17_RetryOnlyNetworkTransient ==
  [][/\ auth'.attempts <= loginMaxRetries
     /\ (auth.pc = "login" /\ auth'.pc # "returned"
           /\ ~(auth'.thrown.isError /\ LoginRetryable(auth'.thrown))) =>
          /\ auth'.pc # "loginBackoff"
          /\ auth'.attempts = auth.attempts
          /\ auth'.loginResult = "false"]_vars

\* C18: an attempt ended by the 30-second timer is retried with backoff as
\* long as the cap of 3 attempts is not reached; the call does not return
\* false at once.
C18_LoginTimeoutRetried ==
  [][(auth.pc = "login" /\ auth'.pc # "returned"
        /\ auth'.thrown = TimerError
        /\ auth.attempts < loginMaxRetries) =>
       /\ auth'.pc = "loginBackoff"
       /\ auth'.delay = (2 ^ auth.attempts) * BackoffUnit
       /\ auth'.loginResult = "none"]_vars

\* C19: when loginWithCredentials returns false for a reason that is not
\* network-transient, the initialization attempt fails: tryAuthWithCookies
\* and loginWithCredentials are not called again.
C19_InvalidAuthNotRetried ==
  [][(auth.pc = "login" /\ auth'.loginResult = "false"
        /\ auth'.thrown.isError /\ ~LoginRetryable(auth'.thrown)) =>
       /\ auth'.pc \in {"threw", "exited"}
       /\ auth'.cookieCalls = auth.cookieCalls
       /\ auth'.loginCalls = auth.loginCalls]_vars

\* C20: once the bootstrap has succeeded the process never exits and every
\* invocation that ends, whatever failed in it, has armed the next one; the
\* process exits only from the bootstrap, when its last initialization
\* attempt (the 5th in build.sh) has failed.
C20_OnlyBootstrapFailureIsFatal ==
  [][/\ main.pc = "running" =>
          /\ main'.pc = "running"
          /\ serverUp'
          /\ \A c \in Cycles :
               (cyc[c].pc # "idle" /\ cyc'[c].pc = "idle") =>
                 timers' = timers + 1
     /\ main'.pc = "exited" =>
          \/ main.pc = "exited"
          \/ /\ main.pc = "initializing"
             /\ main.i = (IF variant = "dm" THEN maxInitRetries - 1 ELSE 0)]_vars

\* build.sh after its bootstrap: a post whose DM and quote both failed is
\* handled, every write of the processed-IDs file has failed, the process
\* runs and the next invocation is scheduled
C20_Witness ==
  /\ variant = "dm"
  /\ main.pc = "running"
  /\ timers = 1
  /\ Running = {}
  /\ processedFile = FileMissing
  /\ \E id \in DOMAIN tweetStore :
       /\ SetHas(processedTweetIds, id)
       /\ Truthy(tweetStore[id].response)
       /\ tweetStore[id].dmSent = "false"
       /\ quotes[id] = 0

\* C21: processedTweetIds only grows, by one ID at a time; the step that
\* inserts an ID also attempts the rewrite of the processed-IDs file, which
\* leaves the file as it was (the write failed) or holding exactly the
\* in-memory set, and the file changes in no other step.
C21_AppendOnlyAndSaved ==
  [][/\ Len(processedTweetIds) <= Len(processedTweetIds')
     /\ SubSeq(processedTweetIds', 1, Len(processedTweetIds))
          = processedTweetIds
     /\ processedTweetIds' # processedTweetIds =>
          /\ Len(processedTweetIds') = Len(processedTweetIds) + 1
          /\ processedFile' \in {processedFile, FileArray(processedTweetIds')}
     /\ processedFile' # processedFile =>
          /\ processedTweetIds' # processedTweetIds
          /\ processedFile' = FileArray(processedTweetIds')]_vars

\* Two IDs have been inserted and the last write succeeded: the file holds
\* both, in insertion order
C21_Witness ==
  /\ Len(processedTweetIds) = 2
  /\ processedFile = FileArray(processedTweetIds)
  /\ main.pc = "running"

\* C22: the cookie file is rewritten by the step that ends a successful
\* credential login and by the step that follows a successful quote; a
\* successful restore from cookies, a failed publish and a timed-out waiter
\* leave the file as it is.
C22_CookieFileWrites ==
  [][/\ (auth.pc = "login" /\ auth'.loginResult = "true") =>
          cookiesFile' = "present"
     /\ \A c \in Cycles :
          (cyc[c].pc = "getCookies" /\ cyc'[c].pc = "idle") =>
            cookiesFile' = "present"
     /\ (auth.pc = "cookies" /\ auth'.cookieResult = "true") =>
          cookiesFile' = cookiesFile
     /\ \A c \in Cycles :
          (cyc[c].pc = "sendQuoteTweet" /\ cyc'[c].pc = "idle") =>
            cookiesFile' = cookiesFile
     /\ \A c \in Cycles : TimesOut(c) => cookiesFile' = cookiesFile]_vars

\* C23: a search that throws, times out or answers with a malformed response
\* selects nothing, and a search that returns none leaves tweetStore, the
\* handled set, its file and the slot as they are and ends the cycle with
\* the next one scheduled.
C23_FailedSearchReturnsNone ==
  [][\A c \in Cycles :
       cyc[c].pc = "fetchSearchTweets" =>
         /\ \A o \in SearchOutcomes :
              o.kind # "ok" =>
                SelectIndex(variant, o, cyc[c].botUsername,
                            processedTweetIds) = 0
         /\ cyc'[c].pc = "idle" =>
              /\ tweetStore' = tweetStore
              /\ processedTweetIds' = processedTweetIds
              /\ processedFile' = processedFile
              /\ currentActiveTweet' = currentActiveTweet
              /\ currentActiveTweet = Null
              /\ timers' = timers + 1
              /\ main' = main]_vars

\* The first search of build.sh returned none: nothing is stored, nothing
\* is handled, and the next cycle is scheduled
C23_Witness ==
  /\ variant = "dm"
  /\ main.pc = "running"
  /\ Running = {}
  /\ timers = 1
  /\ tweetStore = <<>>
  /\ processedTweetIds = <<>>
  /\ currentActiveTweet = Null

\* C24: whatever the search lists, searchForLatestTweet picks the first post
\* in response order that is complete, not written by the bot, mentions the
\* keyword and is not handled; the step that ends the search inserts that
\* one post into tweetStore, or nothing when it returns none.
C24_FirstSurvivingPostWins ==
  [][\A c \in Cycles :
       LET FirstSurviving(v, tweets, processed) ==
             LET S == {i \in 1..Len(tweets) :
                         /\ Complete(tweets[i])
                         /\ ~OwnAccount(tweets[i].username)
                         /\ MentionsKeyword(v, tweets[i])
                         /\ ~SetHas(processed, tweets[i].id)}
             IN IF S = {} THEN 0 ELSE CHOOSE i \in S : \A j \in S : i <= j
       IN cyc[c].pc = "fetchSearchTweets" =>
            /\ \A o \in SearchOutcomes :
                 o.kind = "ok" =>
                   SelectIndex(variant, o, cyc[c].botUsername,
                               processedTweetIds)
                     = FirstSurviving(variant, o.tweets, processedTweetIds)
            /\ cyc'[c].pc = "idle" => tweetStore' = tweetStore
            /\ cyc'[c].pc = "waiting" =>
                 /\ DOMAIN tweetStore' = DOMAIN tweetStore \cup {cyc'[c].tweet}
                 /\ \A id \in DOMAIN tweetStore \ {cyc'[c].tweet} :
                      tweetStore'[id] = tweetStore[id]
                 /\ tweetStore'[cyc'[c].tweet].id = cyc'[c].tweet]_vars

\* C25: when the reply read by the waiter is longer than the character
\* ceiling of the rewriting step and every completion call fails, the text
\* handed to sendQuoteTweet is exactly the first ceiling-many characters of
\* that reply; and the text an invocation hands to sendQuoteTweet is always
\* the one composed from the stored rewritten reply.
C25_FailedRewriteTruncates ==
  \A c \in Cycles :
    /\ (cyc[c].pc = "openai" /\ Len(cyc[c].responseText) > optimizeLimit(variant))
          => QuoteText(variant, <<>>,
               quoteTweetContent(variant, tweetStore[cyc[c].tweet].content,
                 optimizeForTwitter(variant, cyc[c].responseText, TRUE,
                                    FailedCompletion),
                 TRUE, FailedCompletion))
             = Substring0(cyc[c].responseText, optimizeLimit(variant))
    /\ (cyc[c].pc = "sendQuoteTweet" /\ variant # "handoff")
          => \E o \in OptimizeOutcomes :
               cyc[c].quoteText =
                 QuoteText(variant, <<>>,
                   quoteTweetContent(variant, tweetStore[cyc[c].tweet].content,
                     tweetStore[cyc[c].tweet].refinedResponse, apiKey, o))

\* C26: with no completion-service key, a reply shorter than the ceiling is
\* stored unchanged as the rewritten reply when the waiter hands over, it is
\* the text handed to sendQuoteTweet, and when the quote has been published
\* the post is marked processed and its ID is in the handled set and in the
\* processed-IDs file.
C26_ShortReplyPublishedUnchanged ==
  [][\A c \in Cycles :
       (~apiKey /\ variant # "handoff") =>
         /\ (/\ cyc[c].pc = "waiting"
             /\ cyc'[c].pc = "dmConversations"
             /\ Len(tweetStore[cyc[c].tweet].response) < optimizeLimit(variant))
              => tweetStore'[cyc[c].tweet].refinedResponse
                   = tweetStore[cyc[c].tweet].response
         /\ (/\ cyc[c].pc # "sendQuoteTweet"
             /\ cyc'[c].pc = "sendQuoteTweet"
             /\ Len(tweetStore[cyc[c].tweet].refinedResponse)
                  < optimizeLimit(variant))
              => cyc'[c].quoteText = tweetStore[cyc[c].tweet].refinedResponse
         /\ (cyc[c].pc = "quoteAccepted" /\ cyc'[c].pc = "getCookies")
              => /\ tweetStore'[cyc[c].tweet].processed
                 /\ SetHas(processedTweetIds', cyc[c].tweet)
                 /\ processedFile'.kind = "array"
                 /\ SetHas(processedFile'.ids, cyc[c].tweet)]_vars

\* C27: in the build.sh variants that send a DM, once a reply exists,
\* sendQuoteTweet is issued only by
\* an invocation that has been through sendDirectMessage, with no quote
\* published for the post before; whichever way sendDirectMessage ends
\* (sent, a false return, or a throw it catches) the invocation goes on to
\* the quote, and dmSent on the post is set to whether the DM was sent.
C27_DmThenQuote ==
  [][\A c \in Cycles :
       LET DmPcs == {"dmConversations", "dmNewConversation", "dmSend"}
           QuotePcs == {"generateUniqueQuote", "sendQuoteTweet"}
       IN
       variant \in {"dm", "unique"} =>
         /\ (cyc[c].pc \notin QuotePcs /\ cyc'[c].pc \in QuotePcs)
              => /\ cyc[c].pc \in DmPcs
                 /\ quotes[cyc[c].tweet] = 0
         /\ (cyc[c].pc \in DmPcs /\ cyc'[c].pc \notin DmPcs)
              => /\ cyc'[c].pc \in QuotePcs
                 /\ cyc'[c].tweet = cyc[c].tweet
                 /\ tweetStore'[cyc[c].tweet].dmSent
                      = IF dms'[cyc[c].tweet] = dms[cyc[c].tweet] + 1
                        THEN "true" ELSE "false"
                 /\ cyc[c].pc # "dmSend" => dms' = dms]_vars

\* The DM was not sent and the quote has been accepted all the same
C27_Witness ==
  \E c \in Cycles :
    /\ variant \in {"dm", "unique"}
    /\ cyc[c].pc = "quoteAccepted"
    /\ tweetStore[cyc[c].tweet].dmSent = "false"
    /\ dms[cyc[c].tweet] = 0
    /\ quotes[cyc[c].tweet] = 1

\* C28: when tryAuthWithCookies has seen the liveness check succeed and the
\* identity fetch after it fails or does not answer, the function returns
\* true, loginWithCredentials is not called and the cookie file is left as
\* it was.
C28_IdentityFetchBestEffort ==
  [][(/\ auth.pc = "cookies"
      /\ auth'.pc # "cookies"
      /\ auth'.isLoggedIn = "true"
      /\ auth'.me \in {"throw", "timer", "never"})
       => /\ auth'.cookieResult = "true"
          /\ auth'.pc = "returned"
          /\ auth'.loginCalls = auth.loginCalls
          /\ cookiesFile' = cookiesFile]_vars

\* C29: at most one runProcessingCycle invocation is under way or scheduled
\* at any time; the timer for the next one is set only in the step in which
\* the one under way returns; an invocation starts only when none is under
\* way, from main or from the one pending timer; and the slot never passes
\* from one post to another without having been cleared.
C29_CyclesNeverOverlap ==
  [][/\ timers' + Cardinality({c \in Cycles : cyc'[c].pc # "idle"}) <= 1
     /\ timers' > timers
          => /\ Running # {}
             /\ \A c \in Cycles : cyc'[c].pc = "idle"
     /\ (\E c \in Cycles : cyc[c].pc = "idle" /\ cyc'[c].pc # "idle")
          => /\ Running = {}
             /\ \/ main.pc = "initializing" /\ timers = 0
                \/ timers = 1 /\ timers' = 0
     /\ currentActiveTweet # Null
          => currentActiveTweet' \in {currentActiveTweet, Null}]_vars

\* A second invocation, started by the timer the first one set when it
\* returned after publishing, is waiting on another post
C29_Witness ==
  /\ timers = 0
  /\ Len(processedTweetIds) = 1
  /\ quotes[processedTweetIds[1]] = 1
  /\ \E c \in Cycles :
       /\ cyc[c].pc = "waiting"
       /\ cyc[c].tweet # processedTweetIds[1]
       /\ currentActiveTweet = cyc[c].tweet

\* C30: the slot holds a post only while a processTweetAndRespond call for
\* that very post is in progress, and the post is then an entry of
\* tweetStore under its own id; with no invocation under way the slot is
\* null; and GET /api/current-tweet answers 200 only while a cycle is in
\* its wait-and-publish window, with the post of that cycle.
C30_SlotOnlyWhileProcessing ==
  [][/\ currentActiveTweet' # Null
          => /\ currentActiveTweet' \in DOMAIN tweetStore'
             /\ tweetStore'[currentActiveTweet'].id = currentActiveTweet'
             /\ \E c \in Cycles :
                  /\ cyc'[c].pc \in ProcessingPcs
                  /\ cyc'[c].tweet = currentActiveTweet'
     /\ Running = {} => currentActiveTweet = Null
     /\ (\A c \in Cycles : cyc'[c].pc = "idle")
          => currentActiveTweet' = Null
     /\ (GetCurrentTweet /\ http'.code = 200)
          => \E c \in Cycles :
               /\ Processing(c)
               /\ StageOf(cyc[c].pc) \in {"AWAITING_REPLY", "PUBLISHING"}
               /\ http'.tweet.id = cyc[c].tweet
               /\ http'.tweet.id \in DOMAIN tweetStore]_vars

\* The agent was answered 200 with the active post while its quote is being
\* published
C30_Witness ==
  /\ http.route = "current-tweet"
  /\ http.code = 200
  /\ \E c \in Cycles :
       /\ cyc[c].pc = "sendQuoteTweet"
       /\ cyc[c].tweet = http.tweet.id
       /\ currentActiveTweet = cyc[c].tweet

\* C31: a tracked post has processed = true only once sendQuoteTweet for it
\* has returned (the platform accepted the quote and the invocation is past
\* the call) and its ID is in processedTweetIds; a post whose waiter ran out
\* of budget or whose publishing threw ends in processedTweetIds with the
\* flag still false.
C31_ProcessedMeansPublished ==
  [][/\ \A id \in DOMAIN tweetStore' :
          tweetStore'[id].processed
            => /\ quotes'[id] >= 1
               /\ SetHas(processedTweetIds', id)
               /\ \A c \in Cycles :
                    cyc'[c].tweet = id => cyc'[c].pc = "getCookies"
     /\ \A c \in Cycles :
          (\/ cyc[c].pc = "waiting" /\ cyc'[c].pc = "idle"
           \/ cyc[c].pc = "sendQuoteTweet" /\ cyc'[c].pc = "idle")
            => /\ SetHas(processedTweetIds', cyc[c].tweet)
               /\ ~tweetStore'[cyc[c].tweet].processed]_vars

\* Of two handled posts one was published and is flagged, the other was
\* not published and is not flagged
C31_Witness ==
  \E id1, id2 \in DOMAIN tweetStore :
    /\ SetHas(processedTweetIds, id1) /\ SetHas(processedTweetIds, id2)
    /\ tweetStore[id1].processed /\ quotes[id1] = 1
    /\ ~tweetStore[id2].processed /\ quotes[id2] = 0

\* C32: when sendQuoteTweet throws, the step that runs the catch block
\* leaves the post's ID in processedTweetIds and in the processed-IDs file
\* (from which a restarted process loads it) and the slot null; and a post
\* is selected only if its ID is not in processedTweetIds.
C32_FailedPublishHandledForGood ==
  [][\A c \in Cycles :
       /\ (/\ cyc[c].pc = "sendQuoteTweet"
           /\ cyc'[c].pc = "idle"
           /\ restarts' = restarts)
            => /\ SetHas(processedTweetIds', cyc[c].tweet)
               /\ processedFile'.kind = "array"
               /\ SetHas(processedFile'.ids, cyc[c].tweet)
               /\ currentActiveTweet' = Null
       /\ (cyc[c].pc = "fetchSearchTweets" /\ cyc'[c].pc = "waiting")
            => ~SetHas(processedTweetIds, cyc'[c].tweet)]_vars

\* C33: the reply the waiter observed, which is the one handed to
\* optimizeForTwitter, is the reply every later step of the cycle uses:
\* when the completion call settles, the rewritten reply is computed from
\* it and the reply quoted in the DM text is that same reply, whatever
\* POST /api/tweet-response has stored in the meantime.
C33_OneReplyPerCycle ==
  [][\A c \in Cycles :
       (cyc[c].pc = "openai" /\ cyc'[c].pc = "dmConversations")
         => /\ cyc'[c].dmReply = cyc[c].responseText
            /\ \E o \in OptimizeOutcomes :
                 cyc'[c].optimizedResponse =
                   optimizeForTwitter(variant, cyc[c].responseText, TRUE, o)]_vars

\* C34: whatever the reply and however the completion call went, the text
\* an invocation hands to sendQuoteTweet has at most 280 characters.
C34_QuoteAtMost280 ==
  \A c \in Cycles :
    cyc[c].pc = "sendQuoteTweet" => Len(cyc[c].quoteText) <= 280

\* One initialization of the Twitter client followed call by call, for each
\* program, with and without a cookie file and credentials
InitAuth ==
  /\ InitFrom({"handoff"}, Unobserved, {"missing", "present"}, {EnvUsername})
  /\ auth \in {[NoAuth(p) EXCEPT !.credentials = b] :
                 p \in {"part_001", "build.sh", "newsearch.ts"}, b \in BOOLEAN}
  /\ alsBot = AlsStart(0)
  /\ apiBot = Null

NextAuth ==
  \/ AuthStart
  \/ CookieAttemptSettles
  \/ LoginAttemptSettles
  \/ LoginBackoffElapses
  \/ InitBackoffElapses

SpecAuth == InitAuth /\ [][NextAuth]_vars

\* The bot of part_001 with its bootstrap followed call by call, started
\* with and without a cookie file
InitSession ==
  /\ InitFrom({"handoff"}, Unobserved, {"missing", "present"}, {EnvUsername})
  /\ auth \in {[NoAuth("part_001") EXCEPT !.credentials = b] : b \in BOOLEAN}
  /\ alsBot = AlsStart(0)
  /\ apiBot = Null

NextSession ==
  \/ AuthStart
  \/ CookieAttemptSettles
  \/ LoginAttemptSettles
  \/ MainAfterInitialize
  \/ RunProcessingCycle
  \/ \E c \in Cycles : HandoffStep(c)
  \/ PostTweetResponse

SpecSession == InitSession /\ [][NextSession]_vars

\* The text that is published: the three build.sh variants that rewrite
\* the reply, with a search that lists Post1 or fails and an agent that
\* submits a long or a short reply
InitRewrite ==
  /\ InitFrom({"dm", "unique", "rewrite"}, Unobserved, {"missing"},
              {EnvUsername, <<"a", "l", "s", "@", "x", ".", "i", "o">>})
  /\ auth = NoAuth(ProgramOf(variant))
  /\ alsBot = AlsStart(0)
  /\ apiBot = Null

\* Request bodies with the long reply or with a reply shorter than every
\* character limit
RewriteBodies == RequestBodiesWith({ReplyLong, <<"h", "i">>, NumberReply})

NextRewrite ==
  \/ LookupSettles
  \/ AuthStart
  \/ CookieAttemptSettles
  \/ LoginAttemptSettles
  \/ LoginBackoffElapses
  \/ InitBackoffElapses
  \/ MainAfterInitialize
  \/ RunProcessingCycle
  \/ \E c \in Cycles :
       SearchSettlesFrom(c, {[kind |-> "ok", tweets |-> <<Post1>>],
                             [kind |-> "throw", tweets |-> <<>>]})
  \/ \E c \in Cycles :
       \/ WaitTick(c)
       \/ QuoteAccepted(c)
       \/ QuoteReturns(c)
       \/ QuoteThrows(c)
       \/ SaveCookiesSettles(c)
  \/ \E c \in Cycles : DmStep(c)
  \/ \E c \in Cycles : UniqueQuoteSettles(c)
  \/ PostTweetResponseFrom(RewriteBodies)

SpecRewrite == InitRewrite /\ [][NextRewrite]_vars

(***************************************************************************)
(* The file-based bot (english_tweet.ts).  One runProcessingCycle runs at  *)
(* a time: the next one is scheduled when the current one has ended.  The  *)
(* tweet goes to the agent through input.json, the answer comes back       *)
(* through output.json, which the agent writes whenever it likes.          *)
(***************************************************************************)
\* responseContent.substring(0, 240)
QuoteLimitFile == 240

\* What the bots of the other sections keep
serviceVars == <<variant, apiKey, TWITTER_USERNAME, processedFile, cookiesFile, tweetStore,
                 currentActiveTweet, processedTweetIds, main, serverUp, cyc,
                 timers, quotes, dms, http, restarts, loadedIds, auth>>

\* searchForLatestTweet: the first listed tweet with id, username, text, the
\* keyword and an id that was not selected before; tweetId "" where none is
searchForLatestTweet(tweets, processedTweets) ==
  LET Fits(t) == /\ t.id # ""
                 /\ Truthy(t.username)
                 /\ Truthy(t.text)
                 /\ Includes(ToLowerCase(t.text),
                             ToLowerCase(SEARCH_KEYWORD("handoff")))
                 /\ t.id \notin processedTweets
      Found == {i \in 1..Len(tweets) : Fits(tweets[i])}
  IN  IF Found = {}
      THEN [username |-> <<>>, content |-> <<>>, tweetId |-> ""]
      ELSE LET i == CHOOSE j \in Found : \A k \in Found : j <= k
           IN  [username |-> tweets[i].username, content |-> tweets[i].text,
                tweetId |-> tweets[i].id]

\* saveToInputJson: input.json after the call; a failing write is logged and
\* leaves the file as it was
saveToInputJson(content, inputJson, write) ==
  IF write = "ok"
  THEN [kind |-> "json", message |-> content, processed |-> FALSE]
  ELSE inputJson

\* readFromOutputJson: the content of the first assistant message of a
\* document with at least two messages; <<>> stands for null
readFromOutputJson(outputJson) ==
  LET msgs == outputJson.messages
      Assistant == {i \in 1..Len(msgs) : msgs[i].role = "assistant"}
  IN  IF outputJson.kind = "missing" \/ Len(msgs) < 2 \/ Assistant = {}
      THEN <<>>
      ELSE msgs[CHOOSE j \in Assistant : \A k \in Assistant : j <= k].content

\* The bot when main() has reached its first await: tryAuthWithCookies is
\* pending, with or without a cookie file and credentials
InitFile ==
  /\ InitFrom({"handoff"}, Unobserved, {"missing", "present"}, {EnvUsername})
  /\ auth \in {[NoAuth("english_tweet.ts") EXCEPT
                  !.pc = "cookies", !.cookieCalls = 1, !.credentials = b] :
                 b \in BOOLEAN}
  /\ alsBot = AlsStart(0)
  /\ apiBot = Null

\* main(): the awaited initializeTwitterClient has ended.  When it returned
\* the first runProcessingCycle() is called and asks for the search; when
\* it threw, main's catch block ends the process with process.exit(1).
FileAfterInitialize ==
  /\ fileBot.pc = "initializing"
  /\ auth.pc \in {"returned", "threw"}
  /\ auth' = [NoAuth(auth.program) EXCEPT !.credentials = auth.credentials]
  /\ fileBot' = [fileBot EXCEPT !.pc = IF auth.pc = "returned"
                                       THEN "fetchSearchTweets"
                                       ELSE "exited"]
  /\ UNCHANGED <<variant, TWITTER_USERNAME, apiKey, processedFile, cookiesFile,
                 tweetStore, currentActiveTweet, processedTweetIds, main,
                 serverUp, cyc, timers, quotes, dms, http, restarts,
                 loadedIds, alsBot, apiBot>>

\* The 5-minute timer fires: runProcessingCycle is called again
FileCycleStarts ==
  /\ fileBot.pc = "idle"
  /\ fileBot' = [fileBot EXCEPT !.pc = "fetchSearchTweets"]
  /\ UNCHANGED <<serviceVars, alsBot, apiBot>>

\* fetchSearchTweets settles.  A selected tweet is added to processedTweets,
\* its text is written to input.json and the 60 s wait starts; without one
\* the cycle ends and the next is scheduled.
FileSearchSettles ==
  /\ fileBot.pc = "fetchSearchTweets"
  /\ \E tweets \in SeqsUpTo(Posts, MaxResults), write \in {"ok", "throw"} :
       LET latestTweet == searchForLatestTweet(tweets, fileBot.processedTweets)
       IN  IF latestTweet.tweetId = ""
           THEN fileBot' = [fileBot EXCEPT !.pc = "idle"]
           ELSE fileBot' =
                  [fileBot EXCEPT
                     !.pc = "waiting",
                     !.tweet = latestTweet,
                     !.processedTweets = @ \cup {latestTweet.tweetId},
                     !.inputJson = saveToInputJson(latestTweet.content, @,
                                                   write)]
  /\ UNCHANGED <<serviceVars, alsBot, apiBot>>

\* The agent answers what input.json holds: the user message followed by
\* the assistant's answer to it, by an empty answer, or by nothing yet
AgentWrites ==
  /\ fileBot.inputJson.kind = "json"
  /\ \E answer \in {"answer", "empty", "none"} :
       LET msg == fileBot.inputJson.message
           user == [role |-> "user", content |-> msg]
           assistant == [role |-> "assistant",
                         content |-> IF answer = "answer"
                                     THEN <<"R", "e", ":", " ">> \o msg
                                     ELSE <<>>]
       IN  fileBot' = [fileBot EXCEPT !.outputJson =
                         [kind |-> "json",
                          messages |-> IF answer = "none" THEN <<user>>
                                       ELSE <<user, assistant>>]]
  /\ UNCHANGED <<serviceVars, alsBot, apiBot>>

\* The 60 s are over: output.json is read; without a response the cycle
\* ends, with one its first 240 characters go to sendQuoteTweet
FileWaitElapses ==
  /\ fileBot.pc = "waiting"
  /\ LET responseContent == readFromOutputJson(fileBot.outputJson)
     IN  IF ~Truthy(responseContent)
         THEN fileBot' = [fileBot EXCEPT !.pc = "idle"]
         ELSE fileBot' = [fileBot EXCEPT
                            !.pc = "sendQuoteTweet",
                            !.quoteText = Substring0(responseContent,
                                                     QuoteLimitFile)]
  /\ UNCHANGED <<serviceVars, alsBot, apiBot>>

\* sendQuoteTweet settles.  Resolved: the quote is published and
\* saveCookies asks the client for its cookies.  Rejected: the error is
\* logged, the cycle ends and the next one is scheduled.
FileQuoteSettles ==
  /\ fileBot.pc = "sendQuoteTweet"
  /\ \/ fileBot' = [fileBot EXCEPT
                      !.pc = "getCookies",
                      !.published = Append(@, [tweetId |-> fileBot.tweet.tweetId,
                                               text |-> fileBot.quoteText])]
     \/ fileBot' = [fileBot EXCEPT !.pc = "idle"]
  /\ UNCHANGED <<serviceVars, alsBot, apiBot>>

\* saveCookies settles: the file is written, or getCookies or the write
\* failed, which is logged; the cycle ends and the next one is scheduled
FileSaveCookiesSettles ==
  /\ fileBot.pc = "getCookies"
  /\ \E saved \in BOOLEAN :
       cookiesFile' = IF saved THEN "present" ELSE cookiesFile
  /\ fileBot' = [fileBot EXCEPT !.pc = "idle"]
  /\ UNCHANGED <<variant, TWITTER_USERNAME, apiKey, processedFile, tweetStore,
                 currentActiveTweet, processedTweetIds, main, serverUp, cyc,
                 timers, quotes, dms, http, restarts, loadedIds, auth, alsBot,
                 apiBot>>

NextFile ==
  \/ CookieAttemptSettles
  \/ LoginAttemptSettles
  \/ FileAfterInitialize
  \/ FileCycleStarts
  \/ FileSearchSettles
  \/ AgentWrites
  \/ FileWaitElapses
  \/ FileQuoteSettles
  \/ FileSaveCookiesSettles

SpecFile == InitFile /\ [][NextFile]_vars

\* C35: the text handed to sendQuoteTweet for a tweet is an answer to that
\* tweet's content: when the wait ends and a response is read, output.json
\* holds the tweet's content as its user message and the quote is the start
\* of the assistant's answer to it.
C35_QuoteAnswersThisTweet ==
  [][(fileBot.pc = "waiting" /\ fileBot'.pc = "sendQuoteTweet")
       => /\ \E i \in 1..Len(fileBot.outputJson.messages) :
               /\ fileBot.outputJson.messages[i].role = "user"
               /\ fileBot.outputJson.messages[i].content = fileBot.tweet.content
          /\ fileBot'.quoteText =
               Substring0(<<"R", "e", ":", " ">> \o fileBot.tweet.content,
                          QuoteLimitFile)]_vars

(***************************************************************************)
(* The ALS sharing bot (handle-cookies.ts).  A timer starts                *)
(* searchForALSTweets every 2 minutes and sendALSTweet every 5 minutes,    *)
(* whether or not an earlier call has ended: searches overlap, and each    *)
(* `for await' iteration is a step of its own.  The platform's tweets have *)
(* the ids 1..newestId; a search lists the page of maxTweets tweets that   *)
(* holds the first tweet the bot has not seen.  A queue entry is written   *)
(* as its tweetId.                                                         *)
(***************************************************************************)
\* The loop body without the test of processedTweets
LoopBodyWithoutHas(bot, s, id) ==
  [bot EXCEPT
     !.searches[s].tweetCount = @ + 1,
     !.processedTweets = @ \cup {id},
     !.tweetQueue = IF HasUsernameAndText(id) THEN Append(@, id) ELSE @,
     !.enqueued = IF HasUsernameAndText(id) THEN Append(@, id) ELSE @]

\* The body of the loop for one listed tweet (145-159), on the module state
\* and the invocation's tweetCount
LoopBody(bot, s, id) ==
  IF id # 0 /\ id \notin bot.processedTweets
  THEN [bot EXCEPT
          !.searches[s].tweetCount = @ + 1,
          !.processedTweets = @ \cup {id},
          !.tweetQueue = IF HasUsernameAndText(id) THEN Append(@, id) ELSE @,
          !.enqueued = IF HasUsernameAndText(id) THEN Append(@, id) ELSE @]
  ELSE bot

\* searchForALSTweets up to its first await: invocation s asks for the
\* iterator
searchForALSTweets(bot, s) ==
  LET seen == Cardinality(bot.processedTweets)
      first == maxTweets * (seen \div maxTweets) + 1
      last == IF first + maxTweets - 1 < bot.newestId
              THEN first + maxTweets - 1 ELSE bot.newestId
  IN  [bot EXCEPT !.searches[s] =
         [pc |-> "iterating", next |-> first, last |-> last,
          tweetCount |-> 0]]

\* main(): the awaited initializeTwitterClient has ended.  When it returned
\* the two intervals are set and the first searchForALSTweets is called;
\* when it threw, main's catch block ends the process with process.exit(1).
AlsAfterInitialize ==
  /\ alsBot.main = "initializing"
  /\ auth.pc \in {"returned", "threw"}
  /\ auth' = [NoAuth(auth.program) EXCEPT !.credentials = auth.credentials]
  /\ alsBot' = IF auth.pc = "returned"
               THEN searchForALSTweets([alsBot EXCEPT !.main = "running"], 1)
               ELSE [alsBot EXCEPT !.main = "exited"]
  /\ UNCHANGED <<variant, TWITTER_USERNAME, apiKey, processedFile, cookiesFile,
                 tweetStore, currentActiveTweet, processedTweetIds, main,
                 serverUp, cyc, timers, quotes, dms, http, restarts,
                 loadedIds, fileBot, apiBot>>

\* The 2-minute interval fires: searchForALSTweets is called
SearchStarts(s) ==
  /\ alsBot.main = "running"
  /\ alsBot.searches[s].pc # "iterating"
  /\ \A t \in 1..MaxSlots : t < s => alsBot.searches[t].pc = "iterating"
  /\ alsBot' = searchForALSTweets(alsBot, s)
  /\ UNCHANGED <<serviceVars, fileBot, apiBot>>

\* The iterator settles: with the next tweet (the loop body runs, and at
\* maxTweets new tweets the loop is left), with its end, or with an error.
\* After the loop the queue is cut to its last 50 entries; an error skips
\* that.
SearchYields(s) ==
  /\ alsBot.searches[s].pc = "iterating"
  /\ \/ /\ alsBot.searches[s].next <= alsBot.searches[s].last
        /\ LET body == LoopBody(alsBot, s, alsBot.searches[s].next)
           IN  IF body.searches[s].tweetCount >= maxTweets
               THEN alsBot' = [body EXCEPT
                                 !.searches[s] = [pc |-> "completed",
                                                  next |-> 0, last |-> 0,
                                                  tweetCount |-> 0],
                                 !.tweetQueue = TrimQueue(@)]
               ELSE alsBot' = [body EXCEPT !.searches[s].next = @ + 1]
     \/ /\ alsBot.searches[s].next > alsBot.searches[s].last
        /\ alsBot' = [alsBot EXCEPT
                         !.searches[s] = [pc |-> "completed", next |-> 0,
                                          last |-> 0, tweetCount |-> 0],
                         !.tweetQueue = TrimQueue(@)]
     \/ alsBot' = [alsBot EXCEPT
                     !.searches[s] = [pc |-> "failed", next |-> 0,
                                      last |-> 0, tweetCount |-> 0]]
  /\ UNCHANGED <<serviceVars, fileBot, apiBot>>

\* sendALSTweet is called (by the 5-minute interval, or 30 s after the first
\* search): nothing with an empty queue, else the last entry is taken off
\* the queue and sendTweet is called for it
SendALSTweet ==
  /\ alsBot.main = "running"
  /\ alsBot.sendCalls < MaxSends
  /\ IF alsBot.tweetQueue = <<>>
     THEN alsBot' = [alsBot EXCEPT !.sendCalls = @ + 1]
     ELSE LET tweetToShare == alsBot.tweetQueue[Len(alsBot.tweetQueue)]
          IN  alsBot' = [alsBot EXCEPT
                           !.sendCalls = @ + 1,
                           !.tweetQueue = SubSeq(@, 1, Len(@) - 1),
                           !.sending = @ \cup {tweetToShare},
                           !.attempts = Append(@, tweetToShare)]
  /\ UNCHANGED <<serviceVars, fileBot, apiBot>>

\* A rejected sendTweet that puts the entry back on the queue
SendTweetSettlesPutsBack ==
  /\ \E id \in alsBot.sending :
       \/ alsBot' = [alsBot EXCEPT !.sending = @ \ {id},
                                   !.saving = @ \cup {id},
                                   !.lastSend = "ok"]
       \/ alsBot' = [alsBot EXCEPT !.sending = @ \ {id},
                                   !.lastSend = "throw",
                                   !.tweetQueue = Append(@, id)]
  /\ UNCHANGED <<serviceVars, fileBot, apiBot>>

\* sendTweet settles.  Resolved: saveCookies asks the client for its
\* cookies.  Rejected: the error is logged.
SendTweetSettles ==
  /\ \E id \in alsBot.sending :
       \/ alsBot' = [alsBot EXCEPT !.sending = @ \ {id},
                                   !.saving = @ \cup {id},
                                   !.lastSend = "ok"]
       \/ alsBot' = [alsBot EXCEPT !.sending = @ \ {id},
                                   !.lastSend = "throw"]
  /\ UNCHANGED <<serviceVars, fileBot, apiBot>>

\* saveCookies of a sendALSTweet call settles: the file is written, or
\* getCookies or the write failed, which is logged
AlsSaveCookiesSettles ==
  /\ \E id \in alsBot.saving, saved \in BOOLEAN :
       /\ alsBot' = [alsBot EXCEPT !.saving = @ \ {id}]
       /\ cookiesFile' = IF saved THEN "present" ELSE cookiesFile
  /\ UNCHANGED <<variant, TWITTER_USERNAME, apiKey, processedFile, tweetStore,
                 currentActiveTweet, processedTweetIds, main, serverUp, cyc,
                 timers, quotes, dms, http, restarts, loadedIds, auth,
                 fileBot, apiBot>>

\* The bot when main() has reached its first await (tryAuthWithCookies is
\* pending), or after EarlierSearches full searches
InitAls ==
  /\ InitFrom({"handoff"}, Unobserved, {"missing", "present"}, {EnvUsername})
  /\ alsBot \in {AlsStart(0), AlsStart(EarlierSearches)}
  /\ auth \in {[NoAuth("handle-cookies.ts") EXCEPT
                  !.pc = IF alsBot.main = "initializing"
                         THEN "cookies" ELSE "idle",
                  !.cookieCalls = IF alsBot.main = "initializing"
                                  THEN 1 ELSE 0,
                  !.credentials = b] :
                 b \in IF alsBot.main = "initializing"
                       THEN BOOLEAN ELSE {TRUE}}
  /\ apiBot = Null

NextAls ==
  \/ CookieAttemptSettles
  \/ LoginAttemptSettles
  \/ AlsAfterInitialize
  \/ \E s \in 1..MaxSlots : SearchStarts(s)
  \/ \E s \in 1..MaxSlots : SearchYields(s)
  \/ SendALSTweet
  \/ SendTweetSettles
  \/ AlsSaveCookiesSettles

SpecAls == InitAls /\ [][NextAls]_vars

\* C36: no tweet id is pushed to tweetQueue twice in a run, whether the
\* searches overlap or follow each other: the ids pushed so far are
\* pairwise different.
C36_NoIdQueuedTwice ==
  \A i, j \in 1..Len(alsBot.enqueued) :
    i < j => alsBot.enqueued[i] # alsBot.enqueued[j]

\* Two searches iterate the same page at once, and each has found a new
\* tweet that the other then passed over
C36_Witness ==
  \E s, t \in 1..MaxSlots :
    /\ s # t
    /\ alsBot.searches[s].pc = "iterating"
    /\ alsBot.searches[t].pc = "iterating"
    /\ alsBot.searches[s].next = alsBot.searches[t].next
    /\ alsBot.searches[s].tweetCount >= 1
    /\ alsBot.searches[t].tweetCount >= 1
    /\ Len(alsBot.enqueued) >= 2

\* C37: when a search completes without error the queue has at most 50
\* entries, and they are the most recently enqueued of the entries it held:
\* every entry dropped was enqueued before every entry kept, and nothing is
\* dropped beyond what the limit asks for.
C37_CompletedSearchKeepsNewest50 ==
  [][\A s \in 1..MaxSlots :
       (alsBot.searches[s].pc = "iterating"
          /\ alsBot'.searches[s].pc = "completed")
         => LET Ids(q) == {q[i] : i \in 1..Len(q)}
                held == Ids(alsBot.tweetQueue)
                          \cup (Ids(alsBot'.enqueued) \ Ids(alsBot.enqueued))
                kept == Ids(alsBot'.tweetQueue)
                Pos(id) == CHOOSE i \in 1..Len(alsBot'.enqueued) :
                             alsBot'.enqueued[i] = id
            IN  /\ Len(alsBot'.tweetQueue) <= QueueLimit
                /\ Cardinality(kept) = Len(alsBot'.tweetQueue)
                /\ kept \subseteq held
                /\ Cardinality(kept) = Min(QueueLimit, Cardinality(held))
                /\ \A d \in held \ kept, k \in kept : Pos(d) < Pos(k)]_vars

\* A search has completed with a full queue that holds a tweet found in this
\* run and no longer holds an entry it started with, which was never shared
C37_Witness ==
  \E s \in 1..MaxSlots, d \in 1..(EarlierSearches * maxTweets) :
    /\ alsBot.searches[s].pc = "completed"
    /\ Len(alsBot.tweetQueue) = QueueLimit
    /\ \E i \in 1..Len(alsBot.tweetQueue) :
         alsBot.tweetQueue[i] > EarlierSearches * maxTweets
    /\ \E i \in 1..Len(AlsStart(EarlierSearches).tweetQueue) :
         AlsStart(EarlierSearches).tweetQueue[i] = d
    /\ \A i \in 1..Len(alsBot.tweetQueue) : alsBot.tweetQueue[i] # d
    /\ \A i \in 1..Len(alsBot.attempts) : alsBot.attempts[i] # d

\* C38: a sendALSTweet call with entries in the queue takes off the entry
\* enqueued last and calls sendTweet for it once; a call with an empty queue
\* changes nothing; when sendTweet settles, also with a rejection, the queue
\* stays as it is; no tweet is handed to sendTweet twice.
C38_SendTakesNewestOnce ==
  [][/\ alsBot'.sendCalls # alsBot.sendCalls
          => IF alsBot.tweetQueue = <<>>
             THEN /\ alsBot' = [alsBot EXCEPT !.sendCalls = @ + 1]
                  /\ cookiesFile' = cookiesFile
             ELSE LET n == Len(alsBot.tweetQueue)
                      Pos(id) == CHOOSE i \in 1..Len(alsBot.enqueued) :
                                   alsBot.enqueued[i] = id
                  IN  /\ alsBot'.tweetQueue = SubSeq(alsBot.tweetQueue, 1, n - 1)
                      /\ alsBot'.attempts =
                           Append(alsBot.attempts, alsBot.tweetQueue[n])
                      /\ \A i \in 1..n :
                           Pos(alsBot.tweetQueue[i]) <= Pos(alsBot.tweetQueue[n])
     /\ alsBot'.sendCalls = alsBot.sendCalls
          => /\ alsBot'.attempts = alsBot.attempts
             /\ alsBot'.sending # alsBot.sending
                  => alsBot'.tweetQueue = alsBot.tweetQueue
     /\ \A i, j \in 1..Len(alsBot'.attempts) :
          i < j => alsBot'.attempts[i] # alsBot'.attempts[j]]_vars

\* One call found the queue empty, a later one took an entry whose sendTweet
\* was rejected, and the entry is not in the queue
C38_Witness ==
  /\ alsBot.sendCalls > Len(alsBot.attempts)
  /\ Len(alsBot.attempts) >= 1
  /\ alsBot.sending = {}
  /\ alsBot.lastSend = "throw"
  /\ \A i \in 1..Len(alsBot.tweetQueue) :
       alsBot.tweetQueue[i] # alsBot.attempts[1]
  /\ alsBot.tweetQueue # <<>>

(***************************************************************************)
(* The API-driven server (build.sh 1882-2391).  One scraperInstance is     *)
(* shared by main, by the handlers of all requests and by runSearch, the   *)
(* background task that main starts when SEARCH_KEYWORD is set.  Each of   *)
(* them has a call record in apiBot.calls: calls[0] is main's,             *)
(* calls[1..MaxRequests] are those of HTTP requests, and                   *)
(* calls[MaxRequests + 1] is runSearch's.  A record says where the code    *)
(* waits (pc: the awaited call that has not settled), how its              *)
(* initializeTwitterClient went (init: "none" when it made no such call,   *)
(* "pending", "ok", "throw"), whether the route's handler ran, the client  *)
(* it has handed to a platform call ("none" before there is one), and the  *)
(* status code of the answer.  A step is what the event loop runs at once: *)
(* a request's arrival, a timer, or the settling of an awaited call, with  *)
(* the code that follows up to the next awaited call that has to wait for  *)
(* the platform, the file system or the request body.  The routes "/" and  *)
(* /api/status, which are not guarded and assign neither scraperInstance   *)
(* nor the cookie file, and the bookkeeping of pendingTweets,              *)
(* processedTweets and botResponses are not followed.                      *)
(***************************************************************************)
\* initializeTwitterClient with tryAuthWithCookies, loginWithCredentials and
\* saveCookies, for one caller: where the caller waits next.  At pc
\* "initializeTwitterClient" the function is entered (every call in the
\* program is made with scraperInstance null: main's at the start, that of
\* POST /api/init after clearing it, the guard's and runSearch's after
\* testing it, so the early return is not taken); at any other pc the
\* awaited call settles with the outcome.  The cookie attempt answers false
\* without the file, on a read or parse error, on data that is no non-empty
\* array, when setCookies or me() rejects and when isLoggedIn rejects or
\* answers false (outcome "throw"); the login follows.  Without credentials
\* it answers false at once; it answers false when login or me() rejects
\* and when isLoggedIn rejects or answers false; a failure of saveCookies
\* is only logged.  init "ok": the caller's scraper is authenticated; init
\* "throw": the Error 'Failed to authenticate with Twitter ...'.
initializeTwitterClient(call, outcome, credentials, file) ==
  LET authenticated == [call EXCEPT !.pc = "settled", !.init = "ok"]
      failed == [call EXCEPT !.pc = "settled", !.init = "throw"]
      loginWithCredentials == IF credentials
                              THEN [call EXCEPT !.pc = "login"]
                              ELSE failed
      Then(next, otherwise) == IF outcome = "ok"
                               THEN [call EXCEPT !.pc = next]
                               ELSE otherwise
  IN  CASE call.pc = "initializeTwitterClient" ->
             IF file = "missing" THEN loginWithCredentials
             ELSE [call EXCEPT !.pc = "readFile"]
        [] call.pc = "readFile" -> Then("setCookies", loginWithCredentials)
        [] call.pc = "setCookies" -> Then("isLoggedIn", loginWithCredentials)
        [] call.pc = "isLoggedIn" -> Then("cookies.me", loginWithCredentials)
        [] call.pc = "cookies.me" ->
             IF outcome = "ok" THEN authenticated ELSE loginWithCredentials
        [] call.pc = "login" -> Then("login.isLoggedIn", failed)
        [] call.pc = "login.isLoggedIn" -> Then("login.me", failed)
        [] call.pc = "login.me" -> Then("login.getCookies", failed)
        [] call.pc = "login.getCookies" ->
             Then("login.writeFile", authenticated)
        [] call.pc = "login.writeFile" -> authenticated

\* What the caller of calls[r] runs once its initializeTwitterClient has
\* ended, or when it made no such call, up to its next await.  main starts
\* the background task when it is authenticated and SEARCH_KEYWORD is set
\* (the first runSearch finds scraperInstance set and hands it to
\* searchForLatestTweet), and starts the server either way.  runSearch goes
\* on to searchForLatestTweet, or logs the error and arms its 5-minute
\* timer.  A request whose initializeTwitterClient threw is answered 500.
\* POST /api/init calls me() on the scraper it got back.  next() of
\* ensureTwitterClient runs the route's handler: /api/search answers 400
\* without a keyword and else hands scraperInstance to
\* searchForLatestTweet, /api/respond reads the request body first, the two
\* listings answer at once.
RunHandler(bot, r) ==
  LET call == bot.calls[r]
  IN  IF call.init = "pending" THEN bot
      ELSE IF call.route = "main"
      THEN [bot EXCEPT
              !.serving = TRUE,
              !.calls[0].pc = "done",
              !.calls[MaxRequests + 1] =
                IF call.init = "ok" /\ bot.searchKeyword
                THEN [@ EXCEPT !.pc = "fetchSearchTweets",
                               !.scraper = bot.scraperInstance]
                ELSE @]
      ELSE IF call.route = "runSearch"
      THEN IF call.init = "throw"
           THEN [bot EXCEPT !.calls[r].pc = "setTimeout"]
           ELSE [bot EXCEPT !.calls[r].pc = "fetchSearchTweets",
                            !.calls[r].scraper = bot.scraperInstance]
      ELSE IF call.init = "throw"
      THEN [bot EXCEPT !.calls[r].pc = "done", !.calls[r].code = 500]
      ELSE IF call.route = "/api/init"
      THEN [bot EXCEPT !.calls[r].pc = "me", !.calls[r].scraper = "Scraper"]
      ELSE IF call.route = "/api/search?keyword=als"
      THEN [bot EXCEPT !.calls[r].handlerRan = TRUE,
                       !.calls[r].pc = "fetchSearchTweets",
                       !.calls[r].scraper = bot.scraperInstance]
      ELSE IF call.route = "/api/search"
      THEN [bot EXCEPT !.calls[r].handlerRan = TRUE,
                       !.calls[r].pc = "done", !.calls[r].code = 400]
      ELSE IF call.route = "/api/respond"
      THEN [bot EXCEPT !.calls[r].handlerRan = TRUE,
                       !.calls[r].pc = "req.json"]
      ELSE [bot EXCEPT !.calls[r].handlerRan = TRUE,
                       !.calls[r].pc = "done", !.calls[r].code = 200]

\* The server when main() and the code it runs without waiting have ended:
\* main waits in its initializeTwitterClient, or, without a cookie file and
\* without credentials, it has logged the error and started the server.
\* The cookie file, the credentials and SEARCH_KEYWORD are what the
\* environment holds.
InitApi ==
  /\ InitFrom({"handoff"}, Unobserved, {"missing", "present"}, {EnvUsername})
  /\ auth = NoAuth(ProgramOf(variant))
  /\ alsBot = AlsStart(0)
  /\ \E credentials, searchKeyword \in BOOLEAN :
       LET idle(route) == [route |-> route, pc |-> "idle", init |-> "none",
                           handlerRan |-> FALSE, scraper |-> "none",
                           code |-> 0]
           mainCall == [idle("main") EXCEPT
                          !.pc = "initializeTwitterClient",
                          !.init = "pending"]
       IN  apiBot =
             RunHandler(
               [credentials |-> credentials,
                searchKeyword |-> searchKeyword,
                scraperInstance |-> "null",
                serving |-> FALSE,
                calls |-> [r \in 0..(MaxRequests + 1) |->
                             IF r = 0
                             THEN initializeTwitterClient(
                                    mainCall, "ok", credentials, cookiesFile)
                             ELSE IF r = MaxRequests + 1
                             THEN idle("runSearch")
                             ELSE idle("none")]], 0)

\* A request arrives.  POST /api/init clears scraperInstance and calls
\* initializeTwitterClient; a guarded route passes ensureTwitterClient when
\* scraperInstance is set and calls initializeTwitterClient when not.
ApiRequest(r, route) ==
  /\ apiBot.serving
  /\ apiBot.calls[r].pc \in {"idle", "done"}
  /\ \A q \in 1..MaxRequests :
       q < r => apiBot.calls[q].pc \notin {"idle", "done"}
  /\ LET request == [route |-> route, pc |-> "initializeTwitterClient",
                     init |-> "none", handlerRan |-> FALSE,
                     scraper |-> "none", code |-> 0]
         bot == IF route = "/api/init"
                THEN [apiBot EXCEPT !.scraperInstance = "null"]
                ELSE apiBot
         call == IF bot.scraperInstance = "null"
                 THEN initializeTwitterClient(
                        [request EXCEPT !.init = "pending"], "ok",
                        bot.credentials, cookiesFile)
                 ELSE request
     IN  apiBot' = RunHandler([bot EXCEPT !.calls[r] = call], r)
  /\ UNCHANGED <<serviceVars, fileBot, alsBot>>

\* The timer of runSearch fires: it calls initializeTwitterClient when
\* scraperInstance is null and searchForLatestTweet with scraperInstance
\* when it is set.
RunSearchFires ==
  /\ apiBot.calls[MaxRequests + 1].pc = "setTimeout"
  /\ LET runSearch == [apiBot.calls[MaxRequests + 1] EXCEPT
                         !.pc = "initializeTwitterClient", !.init = "none"]
         call == IF apiBot.scraperInstance = "null"
                 THEN initializeTwitterClient(
                        [runSearch EXCEPT !.init = "pending"], "ok",
                        apiBot.credentials, cookiesFile)
                 ELSE runSearch
     IN  apiBot' = RunHandler([apiBot EXCEPT !.calls[MaxRequests + 1] = call],
                              MaxRequests + 1)
  /\ UNCHANGED <<serviceVars, fileBot, alsBot>>

\* A call awaited inside the initializeTwitterClient of calls[r] settles.
\* When saveCookies has the cookies it calls fs.writeFile, and the file may
\* be written at any time before that promise settles: here at once
\* (written) or as it settles.  The last thing an authenticated
\* initializeTwitterClient does is scraperInstance = scraper; its caller
\* goes on in the same run.
InitializeSettles(r) ==
  /\ apiBot.calls[r].init = "pending"
  /\ \E outcome \in {"ok", "throw"}, written \in BOOLEAN :
       LET pc == apiBot.calls[r].pc
           call == initializeTwitterClient(apiBot.calls[r], outcome,
                                           apiBot.credentials, cookiesFile)
       IN  /\ written => pc = "login.getCookies" /\ outcome = "ok"
           /\ cookiesFile' =
                IF written \/ (pc = "login.writeFile" /\ outcome = "ok")
                THEN "present" ELSE cookiesFile
           /\ apiBot' =
                RunHandler([apiBot EXCEPT
                              !.calls[r] = call,
                              !.scraperInstance = IF call.init = "ok"
                                                  THEN "Scraper" ELSE @], r)
  /\ UNCHANGED <<variant, TWITTER_USERNAME, apiKey, processedFile, tweetStore,
                 currentActiveTweet, processedTweetIds, main, serverUp, cyc,
                 timers, quotes, dms, http, restarts, loadedIds, auth,
                 fileBot, alsBot>>

\* A call awaited by a handler or by runSearch settles.
\* fetchSearchTweets: searchForLatestTweet catches a rejection; the request
\* is answered 200, runSearch arms its timer.  c.req.json() of /api/respond:
\* a body that is no JSON: 500; without tweetId or response (incomplete):
\* 400; else respondToTweet gets the scraperInstance of this moment.  A
\* response that is no string (nonstring) makes it throw a TypeError at
\* response.substring, before it touches the client; on a null client
\* scraper.sendQuoteTweet throws a TypeError at once; respondToTweet
\* catches either and the answer is 200 with success false.  sendQuoteTweet: a
\* rejection is caught and the answer is 200; after a published quote
\* saveCookies asks the client for its cookies and writes the file as in
\* initializeTwitterClient, a failure is logged and the answer is 200.
\* A rejected scraper.me() makes POST /api/init answer 500.
CallSettles(r) ==
  /\ apiBot.calls[r].pc \in {"fetchSearchTweets", "req.json",
                             "sendQuoteTweet", "getCookies", "writeFile",
                             "me"}
  /\ \E outcome \in {"ok", "throw", "incomplete", "nonstring"},
        written \in BOOLEAN :
       LET call == apiBot.calls[r]
           Answer(code) == [call EXCEPT !.pc = "done", !.code = code]
       IN  /\ outcome \in {"incomplete", "nonstring"} => call.pc = "req.json"
           /\ written => call.pc = "getCookies" /\ outcome = "ok"
           /\ cookiesFile' =
                IF written \/ (call.pc = "writeFile" /\ outcome = "ok")
                THEN "present" ELSE cookiesFile
           /\ apiBot' = [apiBot EXCEPT !.calls[r] =
                IF call.route = "runSearch"
                THEN [call EXCEPT !.pc = "setTimeout"]
                ELSE IF call.pc = "req.json"
                THEN IF outcome = "throw" THEN Answer(500)
                     ELSE IF outcome = "incomplete" THEN Answer(400)
                     ELSE IF outcome = "nonstring" THEN Answer(200)
                     ELSE IF apiBot.scraperInstance = "null"
                     THEN [Answer(200) EXCEPT !.scraper = "null"]
                     ELSE [call EXCEPT !.scraper = apiBot.scraperInstance,
                                       !.pc = "sendQuoteTweet"]
                ELSE IF call.pc = "sendQuoteTweet" /\ outcome = "ok"
                THEN [call EXCEPT !.pc = "getCookies"]
                ELSE IF call.pc = "getCookies" /\ outcome = "ok"
                THEN [call EXCEPT !.pc = "writeFile"]
                ELSE IF call.pc = "me" /\ outcome = "throw"
                THEN Answer(500)
                ELSE Answer(200)]
  /\ UNCHANGED <<variant, TWITTER_USERNAME, apiKey, processedFile, tweetStore,
                 currentActiveTweet, processedTweetIds, main, serverUp, cyc,
                 timers, quotes, dms, http, restarts, loadedIds, auth,
                 fileBot, alsBot>>

NextApi ==
  \/ \E r \in 1..MaxRequests,
        route \in {"/api/init", "/api/search", "/api/search?keyword=als",
                   "/api/pending-tweets", "/api/respond",
                   "/api/responses"} : ApiRequest(r, route)
  \/ RunSearchFires
  \/ \E r \in 0..(MaxRequests + 1) : InitializeSettles(r)
  \/ \E r \in 1..(MaxRequests + 1) : CallSettles(r)

SpecApi == InitApi /\ [][NextApi]_vars

\* C39: no handler of a guarded route hands a null client to a platform
\* call, however its steps interleave with POST /api/init; and a request
\* whose initializeTwitterClient failed in the guard is answered 500 without
\* its handler having run.
C39_GuardedHandlersHaveClient ==
  \A r \in 1..MaxRequests :
    /\ apiBot.calls[r].scraper # "null"
    /\ (apiBot.calls[r].init = "throw"
          /\ apiBot.calls[r].route # "/api/init")
         => /\ apiBot.calls[r].code = 500
            /\ ~apiBot.calls[r].handlerRan
====
